---- MODULE Spec2Model ----
(***************************************************************************)
(* Version classification (getUpdateType) and the constraint-preserving    *)
(* manifest updaters of pkg-version.                                       *)
(*                                                                         *)
(* A string is a sequence of one-character strings, so that coercion,      *)
(* parsing and prefix matching are computed character by character the way *)
(* the regular expressions of the code and of the semver library compute   *)
(* them.                                                                   *)
(***************************************************************************)
EXTENDS Integers, Sequences, FiniteSets, TLC

(***************************************************************************)
(* Bounds of the model.                                                    *)
(***************************************************************************)
\* Version components of the generated inputs range over 0..MaxComp.
MaxComp == 1

\* The number of exclusion commands followed.
MaxCommands == 2

\* The longest list of outdated dependencies updateAllPackages is given.
MaxDependencies == 4

(***************************************************************************)
(* Characters and strings.                                                 *)
(***************************************************************************)
DigitChars == <<"0", "1", "2", "3", "4", "5", "6", "7", "8", "9">>

UpperChars == <<"A", "B", "C", "D", "E", "F", "G", "H", "I", "J", "K", "L", "M",
                "N", "O", "P", "Q", "R", "S", "T", "U", "V", "W", "X", "Y", "Z">>

LowerChars == <<"a", "b", "c", "d", "e", "f", "g", "h", "i", "j", "k", "l", "m",
                "n", "o", "p", "q", "r", "s", "t", "u", "v", "w", "x", "y", "z">>

Range(f) == {f[i] : i \in DOMAIN f}

IndexOf(f, c) == CHOOSE i \in DOMAIN f : f[i] = c

IsDigit(c) == c \in Range(DigitChars)

IsLetter(c) == c \in Range(UpperChars) \cup Range(LowerChars)

DigitVal(c) == IndexOf(DigitChars, c) - 1

\* The UTF-16 code unit order of the characters a version identifier is made
\* of: '-' < digits < upper case < lower case.
CharCode(c) ==
    IF c = "-" THEN 45
    ELSE IF IsDigit(c) THEN 48 + DigitVal(c)
    ELSE IF c \in Range(UpperChars) THEN 64 + IndexOf(UpperChars, c)
    ELSE 96 + IndexOf(LowerChars, c)

\* String.prototype.toLowerCase, character by character.
ToLowerChar(c) ==
    IF c \in Range(UpperChars) THEN LowerChars[IndexOf(UpperChars, c)] ELSE c

toLowerCase(s) == [i \in 1..Len(s) |-> ToLowerChar(s[i])]

\* Decimal value of a digit string, and the decimal string of a number.
RECURSIVE ToNat(_)
ToNat(ds) ==
    IF Len(ds) = 0 THEN 0
    ELSE 10 * ToNat(SubSeq(ds, 1, Len(ds) - 1)) + DigitVal(ds[Len(ds)])

RECURSIVE NatToStr(_)
NatToStr(n) ==
    IF n < 10 THEN <<DigitChars[n + 1]>>
    ELSE NatToStr(n \div 10) \o <<DigitChars[(n % 10) + 1]>>

AllDigits(s) == Len(s) > 0 /\ \A i \in 1..Len(s) : IsDigit(s[i])

\* String.prototype.split on a one-character separator.
RECURSIVE Split(_, _)
Split(s, sep) ==
    IF \A i \in 1..Len(s) : s[i] # sep THEN <<s>>
    ELSE LET k == CHOOSE i \in 1..Len(s) :
                      s[i] = sep /\ \A j \in 1..(i - 1) : s[j] # sep
         IN  <<SubSeq(s, 1, k - 1)>> \o Split(SubSeq(s, k + 1, Len(s)), sep)

\* String.prototype.trim for the blank character.
RECURSIVE Trim(_)
Trim(s) ==
    IF Len(s) = 0 THEN s
    ELSE IF s[1] = " " THEN Trim(Tail(s))
    ELSE IF s[Len(s)] = " " THEN Trim(SubSeq(s, 1, Len(s) - 1))
    ELSE s

\* Join with dots.
RECURSIVE JoinDots(_)
JoinDots(parts) ==
    IF Len(parts) = 0 THEN <<>>
    ELSE IF Len(parts) = 1 THEN parts[1]
    ELSE parts[1] \o <<".">> \o JoinDots(Tail(parts))

(***************************************************************************)
(* The semver library as getUpdateType uses it.                            *)
(***************************************************************************)
\* null where a SemVer object is expected: the result of a failed parse or
\* coercion.
NoVersion == [major |-> -1, minor |-> -1, patch |-> -1, prerelease |-> <<>>]

\* null where a string is expected: a one-element sequence whose element is
\* no character, so that it differs from every string, "null" included.
Null == <<"null">>

\* The longest run of digits a coerced component may have.
MAX_SAFE_COMPONENT_LENGTH == 16

\* The < of two strings: by code units, a proper prefix first.
RECURSIVE StringLess(_, _)
StringLess(a, b) ==
    IF Len(b) = 0 THEN FALSE
    ELSE IF Len(a) = 0 THEN TRUE
    ELSE IF a[1] = b[1] THEN StringLess(Tail(a), Tail(b))
    ELSE CharCode(a[1]) < CharCode(b[1])

\* Number.MAX_SAFE_INTEGER in decimal digits.
MAX_SAFE_INTEGER ==
    <<"9", "0", "0", "7", "1", "9", "9", "2", "5", "4", "7", "4", "0", "9", "9", "1">>

\* A numeric identifier that new SemVer accepts as major, minor or patch:
\* one above MAX_SAFE_INTEGER makes it throw.
IsSafeInteger(s) ==
    \/ Len(s) < Len(MAX_SAFE_INTEGER)
    \/ Len(s) = Len(MAX_SAFE_INTEGER) /\ ~StringLess(MAX_SAFE_INTEGER, s)

\* NUMERICIDENTIFIER: 0|[1-9]\d*
IsNumericIdentifier(s) == AllDigits(s) /\ (Len(s) = 1 \/ s[1] # "0")

\* [0-9A-Za-z-]+
IsIdentifierChars(s) ==
    Len(s) > 0 /\ \A i \in 1..Len(s) : IsDigit(s[i]) \/ IsLetter(s[i]) \/ s[i] = "-"

\* PRERELEASEIDENTIFIER: a numeric identifier, or \d*[a-zA-Z-][a-zA-Z0-9-]*
IsPrereleaseIdentifier(s) ==
    IsIdentifierChars(s) /\ (AllDigits(s) => IsNumericIdentifier(s))

\* Position of the first occurrence of c in s, 0 when there is none.
FirstPos(s, c) ==
    IF \E i \in 1..Len(s) : s[i] = c
    THEN CHOOSE i \in 1..Len(s) : s[i] = c /\ \A j \in 1..(i - 1) : s[j] # c
    ELSE 0

\* The text before the first c, all of it when there is no c.
Before(s, c) ==
    IF FirstPos(s, c) = 0 THEN s ELSE SubSeq(s, 1, FirstPos(s, c) - 1)

\* The dot-separated identifiers after the first c, none when there is no c.
IdentifiersAfter(s, c) ==
    IF FirstPos(s, c) = 0 THEN <<>>
    ELSE Split(SubSeq(s, FirstPos(s, c) + 1, Len(s)), ".")

\* The groups of the FULL pattern checked: three numeric identifiers,
\* pre-release identifiers, build identifiers.
ParseGroups(nums, ids, bids) ==
    IF /\ Len(nums) = 3
       /\ \A i \in 1..3 : IsNumericIdentifier(nums[i]) /\ IsSafeInteger(nums[i])
       /\ \A i \in 1..Len(ids) : IsPrereleaseIdentifier(ids[i])
       /\ \A i \in 1..Len(bids) : IsIdentifierChars(bids[i])
    THEN [major |-> ToNat(nums[1]), minor |-> ToNat(nums[2]),
          patch |-> ToNat(nums[3]),
          prerelease |-> ids]
    ELSE NoVersion

\* MAIN(-PRERELEASE)?(+BUILD)? : the build follows the first "+", the
\* pre-release the first "-" before it.
ParsePlain(body) ==
    ParseGroups(Split(Before(Before(body, "+"), "-"), "."),
                IdentifiersAfter(Before(body, "+"), "-"),
                IdentifiersAfter(body, "+"))

\* The optional leading v.
StripV(t) == IF Len(t) > 0 /\ t[1] = "v" THEN Tail(t) ELSE t

\* new SemVer(version): the strict FULL pattern
\*   ^v?MAIN(-PRERELEASE)?(+BUILD)?$  on the trimmed string.
\* A version is a record of its numeric components and its pre-release
\* identifiers (strings; the all-digit ones are the numeric identifiers).
SemverParse(version) == ParsePlain(StripV(Trim(version)))

\* SemVer.format(): the canonical version string.
SemverFormat(v) ==
    LET main == NatToStr(v.major) \o <<".">> \o NatToStr(v.minor) \o <<".">>
                    \o NatToStr(v.patch)
    IN  IF Len(v.prerelease) = 0 THEN main
        ELSE main \o <<"-">> \o JoinDots(v.prerelease)

\* semver.coerce(version) without options: the first match of
\*   (^|[^\d])(\d{1,16})(?:\.(\d{1,16}))?(?:\.(\d{1,16}))?(?:$|[^\d])
\* completed with zeros and parsed.  The pre-release suffix is not part of
\* the pattern: it is dropped.
\* The last position of the run of digits that starts at position i.
DigitRunEnd(s, i) ==
    CHOOSE j \in i..Len(s) :
        /\ \A k \in i..j : IsDigit(s[k])
        /\ (j = Len(s) \/ ~IsDigit(s[j + 1]))

\* A slip: the pattern anchored at the start of the string, ^(\d{1,16})...
IsCoercibleRunAnchored(s, i) ==
    /\ i = 1
    /\ IsDigit(s[i])
    /\ DigitRunEnd(s, i) - i + 1 <= MAX_SAFE_COMPONENT_LENGTH

\* A run of digits starts at i, is preceded by no digit and fits the pattern.
IsCoercibleRun(s, i) ==
    /\ IsDigit(s[i])
    /\ (i = 1 \/ ~IsDigit(s[i - 1]))
    /\ DigitRunEnd(s, i) - i + 1 <= MAX_SAFE_COMPONENT_LENGTH

\* The group (?:\.(\d{1,16}))? tried at position i: the last position of
\* its match, or i - 1 when the group matches nothing.
DotGroupEnd(s, i) ==
    IF /\ i + 1 <= Len(s)
       /\ s[i] = "."
       /\ IsCoercibleRun(s, i + 1)
    THEN DigitRunEnd(s, i + 1)
    ELSE i - 1

SemverCoerce(version) ==
    IF \A i \in 1..Len(version) : ~IsCoercibleRun(version, i) THEN NoVersion
    ELSE LET a  == CHOOSE i \in 1..Len(version) :
                       /\ IsCoercibleRun(version, i)
                       /\ \A j \in 1..(i - 1) : ~IsCoercibleRun(version, j)
             ae == DigitRunEnd(version, a)
             be == DotGroupEnd(version, ae + 1)
             ce == IF be = ae THEN ae ELSE DotGroupEnd(version, be + 1)
             major == SubSeq(version, a, ae)
             minor == IF be = ae THEN <<"0">> ELSE SubSeq(version, ae + 2, be)
             patch == IF ce = be THEN <<"0">> ELSE SubSeq(version, be + 2, ce)
         IN  SemverParse(major \o <<".">> \o minor \o <<".">> \o patch)

\* A slip: a failed coercion replaced by the version 0.0.0.
SemverValidOrZero(v) ==
    IF v = NoVersion THEN <<"0", ".", "0", ".", "0">> ELSE SemverFormat(v)

\* semver.valid(version): the canonical version string of a SemVer object,
\* null for null.
SemverValid(v) == IF v = NoVersion THEN Null ELSE SemverFormat(v)

\* A slip: equal numbers compared as greater.
CompareNumbersNoEqual(a, b) == IF a < b THEN -1 ELSE 1

\* compareIdentifiers on numbers (the main components).
CompareNumbers(a, b) == IF a = b THEN 0 ELSE IF a < b THEN -1 ELSE 1

\* compareIdentifiers on pre-release identifiers: numeric ones by value and
\* before the others, the others as strings.
compareIdentifiers(a, b) ==
    IF AllDigits(a) /\ AllDigits(b) THEN CompareNumbers(ToNat(a), ToNat(b))
    ELSE IF a = b THEN 0
    ELSE IF AllDigits(a) THEN -1
    ELSE IF AllDigits(b) THEN 1
    ELSE IF StringLess(a, b) THEN -1 ELSE 1

compareMain(v, w) ==
    IF CompareNumbers(v.major, w.major) # 0 THEN CompareNumbers(v.major, w.major)
    ELSE IF CompareNumbers(v.minor, w.minor) # 0 THEN CompareNumbers(v.minor, w.minor)
    ELSE CompareNumbers(v.patch, w.patch)

RECURSIVE comparePreFrom(_, _, _)
comparePreFrom(p, q, i) ==
    IF i > Len(p) /\ i > Len(q) THEN 0
    ELSE IF i > Len(q) THEN 1
    ELSE IF i > Len(p) THEN -1
    ELSE IF p[i] = q[i] THEN comparePreFrom(p, q, i + 1)
    ELSE compareIdentifiers(p[i], q[i])

comparePre(v, w) ==
    IF Len(v.prerelease) > 0 /\ Len(w.prerelease) = 0 THEN -1
    ELSE IF Len(v.prerelease) = 0 /\ Len(w.prerelease) > 0 THEN 1
    ELSE IF Len(v.prerelease) = 0 /\ Len(w.prerelease) = 0 THEN 0
    ELSE comparePreFrom(v.prerelease, w.prerelease, 1)

\* SemVer.compare
SemverCompare(v, w) ==
    IF compareMain(v, w) # 0 THEN compareMain(v, w) ELSE comparePre(v, w)

\* gt on two parsed versions; new SemVer throws on what is no version.
GtVersions(v, w) ==
    IF v = NoVersion \/ w = NoVersion THEN "TypeError"
    ELSE IF SemverCompare(v, w) > 0 THEN "true"
    ELSE "false"

\* A slip: the arguments taken in the other order.
SemverGtSwapped(a, b) == GtVersions(SemverParse(b), SemverParse(a))

\* semver.gt(a, b) on two strings: "true" or "false", or "TypeError" when
\* one of them is no version (new SemVer throws).
SemverGt(a, b) == GtVersions(SemverParse(a), SemverParse(b))

\* The first main part in which the versions differ, "prerelease" when
\* the main parts are equal.
DiffMain(v1, v2) ==
    IF v1.major # v2.major THEN "major"
    ELSE IF v1.minor # v2.minor THEN "minor"
    ELSE IF v1.patch # v2.patch THEN "patch"
    ELSE "prerelease"

\* diff once the lower and the higher version are known.
DiffOrdered(lowVersion, highVersion, main) ==
    IF /\ Len(lowVersion.prerelease) > 0 /\ Len(highVersion.prerelease) = 0
       /\ lowVersion.patch = 0 /\ lowVersion.minor = 0
        THEN "major"
    ELSE IF /\ Len(lowVersion.prerelease) > 0 /\ Len(highVersion.prerelease) = 0
            /\ compareMain(lowVersion, highVersion) = 0
        THEN IF lowVersion.minor # 0 /\ lowVersion.patch = 0 THEN "minor" ELSE "patch"
    ELSE IF Len(highVersion.prerelease) > 0 /\ main # "prerelease" THEN
        (CASE main = "major" -> "premajor"
           [] main = "minor" -> "preminor"
           [] main = "patch" -> "prepatch")
    ELSE main

DiffVersions(v1, v2, comparison) ==
    IF comparison = 0 THEN "null"
    ELSE IF comparison > 0 THEN DiffOrdered(v2, v1, DiffMain(v1, v2))
    ELSE DiffOrdered(v1, v2, DiffMain(v1, v2))

DiffParsed(v1, v2) == DiffVersions(v1, v2, SemverCompare(v1, v2))

\* A slip: the parts compared from the last to the first.
DiffPatchFirst(v1, v2) ==
    IF SemverCompare(v1, v2) = 0 THEN "null"
    ELSE IF v1.patch # v2.patch THEN "patch"
    ELSE IF v1.minor # v2.minor THEN "minor"
    ELSE IF v1.major # v2.major THEN "major"
    ELSE "prerelease"

SemverDiffPatchFirst(version1, version2) ==
    DiffPatchFirst(SemverParse(version1), SemverParse(version2))

\* semver.diff(version1, version2) on two valid version strings: the name of
\* the first differing part, "null" for equal versions.
SemverDiff(version1, version2) ==
    DiffParsed(SemverParse(version1), SemverParse(version2))

(***************************************************************************)
(* semver ranges: validRange and satisfies.  A range is a list of          *)
(* comparator sets separated by "||"; a set is a list of blank-separated   *)
(* comparators; carets, tildes and x-ranges are rewritten into primitive   *)
(* comparators (an operator and a version).  Hyphen ranges and blanks      *)
(* between an operator and its version are not modelled.                   *)
(***************************************************************************)
\* The comparator that every version passes (Comparator.ANY).
ANY == [major |-> -2, minor |-> -2, patch |-> -2, prerelease |-> <<>>]

Version(M, m, p, pre) == [major |-> M, minor |-> m, patch |-> p, prerelease |-> pre]

Comparator(op, v) == [operator |-> op, semver |-> v]

\* The parts a rewritten comparator has: a list of primitive comparators, or
\* no list when the text is no comparator (the library throws TypeError).
Comparators(list) == [ok |-> TRUE, comps |-> list]

InvalidComparator == [ok |-> FALSE, comps |-> <<>>]

\* XRANGEIDENTIFIER: NUMERICIDENTIFIER|x|X|\*
IsXRangeIdentifier(s) == IsNumericIdentifier(s) \/ s \in {<<"x">>, <<"X">>, <<"*">>}

\* isX(id): a missing part, x, X or *.
isX(id) == id = <<>> \/ id \in {<<"x">>, <<"X">>, <<"*">>}

RECURSIVE DropLeading(_, _)
DropLeading(s, chars) ==
    IF Len(s) > 0 /\ s[1] \in chars THEN DropLeading(Tail(s), chars) ELSE s

\* The groups of XRANGEPLAIN checked; `suffixed` when a pre-release or a
\* build follows, which the pattern allows after a third part only.
\* A numeric part above MAX_SAFE_INTEGER makes the comparator built from the
\* rewritten range throw: such text is no comparator either way.
XRangeGroups(parts, ids, bids, suffixed) ==
    IF /\ Len(parts) \in 1..3
       /\ \A i \in 1..Len(parts) : IsXRangeIdentifier(parts[i]) /\ IsSafeInteger(parts[i])
       /\ suffixed => Len(parts) = 3
       /\ \A i \in 1..Len(ids) : IsPrereleaseIdentifier(ids[i])
       /\ \A i \in 1..Len(bids) : IsIdentifierChars(bids[i])
    THEN [ok |-> TRUE, M |-> parts[1],
          m |-> IF Len(parts) >= 2 THEN parts[2] ELSE <<>>,
          p |-> IF Len(parts) >= 3 THEN parts[3] ELSE <<>>,
          pr |-> ids]
    ELSE [ok |-> FALSE, M |-> <<>>, m |-> <<>>, p |-> <<>>, pr |-> <<>>]

XRangeBody(body) ==
    XRangeGroups(Split(Before(Before(body, "+"), "-"), "."),
                 IdentifiersAfter(Before(body, "+"), "-"),
                 IdentifiersAfter(body, "+"),
                 FirstPos(body, "+") # 0 \/ FirstPos(Before(body, "+"), "-") # 0)

\* XRANGEPLAIN: [v=\s]*(XR)(?:\.(XR)(?:\.(XR)(?:PRERELEASE)?BUILD?)?)?
\* matched against the whole of r: the parts M, m, p (empty when absent) and
\* the pre-release identifiers.
XRangePlain(r) == XRangeBody(DropLeading(r, {"v", "=", " "}))

\* The upper bounds of the rewritten ranges carry the pre-release "-0".
Below(M, m, p) == Comparator("<", Version(M, m, p, <<<<"0">>>>))

AtLeast(M, m, p, pre) == Comparator(">=", Version(M, m, p, pre))

\* replaceCaret on a matched caret range.
replaceCaret(x) ==
    LET M == ToNat(x.M)
        m == ToNat(x.m)
        p == ToNat(x.p)
    IN  IF isX(x.M) THEN <<Comparator("", ANY)>>
        ELSE IF isX(x.m) THEN <<AtLeast(M, 0, 0, <<>>), Below(M + 1, 0, 0)>>
        ELSE IF isX(x.p) THEN
            IF x.M = <<"0">> THEN <<AtLeast(M, m, 0, <<>>), Below(M, m + 1, 0)>>
            ELSE <<AtLeast(M, m, 0, <<>>), Below(M + 1, 0, 0)>>
        ELSE IF x.M = <<"0">> THEN
            IF x.m = <<"0">> THEN <<AtLeast(M, m, p, x.pr), Below(M, m, p + 1)>>
            ELSE <<AtLeast(M, m, p, x.pr), Below(M, m + 1, 0)>>
        ELSE <<AtLeast(M, m, p, x.pr), Below(M + 1, 0, 0)>>

\* replaceTilde on a matched tilde range.
replaceTilde(x) ==
    LET M == ToNat(x.M)
        m == ToNat(x.m)
        p == ToNat(x.p)
    IN  IF isX(x.M) THEN <<Comparator("", ANY)>>
        ELSE IF isX(x.m) THEN <<AtLeast(M, 0, 0, <<>>), Below(M + 1, 0, 0)>>
        ELSE IF isX(x.p) THEN <<AtLeast(M, m, 0, <<>>), Below(M, m + 1, 0)>>
        ELSE <<AtLeast(M, m, p, x.pr), Below(M, m + 1, 0)>>

\* The operator of GTLT, ((?:<|>)?=?), at the head of a comparator.
GtltOf(c) ==
    IF Len(c) >= 2 /\ c[1] \in {"<", ">"} /\ c[2] = "=" THEN SubSeq(c, 1, 2)
    ELSE IF Len(c) >= 1 /\ c[1] \in {"<", ">", "="} THEN SubSeq(c, 1, 1)
    ELSE <<>>

OperatorName(gtlt) ==
    IF gtlt = <<">", "=">> THEN ">="
    ELSE IF gtlt = <<"<", "=">> THEN "<="
    ELSE IF gtlt = <<">">> THEN ">"
    ELSE IF gtlt = <<"<">> THEN "<"
    ELSE ""

\* A primitive comparator from its operator and the text of its version.
ComparatorOf(gtlt, rest) ==
    IF rest = Trim(rest) /\ SemverParse(rest) # NoVersion
    THEN Comparators(<<Comparator(OperatorName(gtlt), SemverParse(rest))>>)
    ELSE InvalidComparator

\* new Comparator(comp): the COMPARATOR pattern ^GTLT\s*(FULLPLAIN)$|^$ ;
\* the operator "=" is stored as the empty operator.
ParseComparator(c) ==
    IF c = <<>> THEN Comparators(<<Comparator("", ANY)>>)
    ELSE ComparatorOf(GtltOf(c),
                      DropLeading(SubSeq(c, Len(GtltOf(c)) + 1, Len(c)), {" "}))

\* Where the match of (<|>)?=?\s*\* starts when the star is at k.
StarFrom(c, k) ==
    IF k >= 3 /\ c[k - 2] \in {"<", ">"} /\ c[k - 1] = "=" THEN k - 2
    ELSE IF k >= 2 /\ c[k - 1] \in {"<", ">", "="} THEN k - 1
    ELSE k

RemoveStar(c, k) ==
    IF k = 0 THEN c ELSE SubSeq(c, 1, StarFrom(c, k) - 1) \o SubSeq(c, k + 1, Len(c))

\* replaceStars: the first match of (<|>)?=?\s*\* is removed.
replaceStars(c) == RemoveStar(c, FirstPos(c, "*"))

\* The rewriting of an x-range: xM, xm, xp tell that the major, the minor,
\* the patch part is an x or is missing.
XRangeOf(c, gtlt, x, xM, xm, xp) ==
    IF xM THEN
        IF gtlt \in {<<">">>, <<"<">>}
        THEN Comparators(<<Comparator("<", Version(0, 0, 0, <<<<"0">>>>))>>)
        ELSE Comparators(<<Comparator("", ANY)>>)
    ELSE IF gtlt # <<>> /\ xp THEN
        IF gtlt = <<">">> THEN
            IF xm THEN Comparators(<<AtLeast(ToNat(x.M) + 1, 0, 0, <<>>)>>)
            ELSE Comparators(<<AtLeast(ToNat(x.M), ToNat(x.m) + 1, 0, <<>>)>>)
        ELSE IF gtlt = <<"<", "=">> THEN
            IF xm THEN Comparators(<<Below(ToNat(x.M) + 1, 0, 0)>>)
            ELSE Comparators(<<Below(ToNat(x.M), ToNat(x.m) + 1, 0)>>)
        ELSE IF gtlt = <<"<">> THEN
            Comparators(<<Below(ToNat(x.M), IF xm THEN 0 ELSE ToNat(x.m), 0)>>)
        ELSE Comparators(<<AtLeast(ToNat(x.M), IF xm THEN 0 ELSE ToNat(x.m), 0, <<>>)>>)
    ELSE IF xm THEN
        Comparators(<<AtLeast(ToNat(x.M), 0, 0, <<>>), Below(ToNat(x.M) + 1, 0, 0)>>)
    ELSE IF xp THEN
        Comparators(<<AtLeast(ToNat(x.M), ToNat(x.m), 0, <<>>),
                      Below(ToNat(x.M), ToNat(x.m) + 1, 0)>>)
    ELSE ParseComparator(c)

\* replaceXRange on a matched x-range; a comparator without x part is left
\* as written and parsed as it is.  The operator "=" of an x-range is dropped.
replaceXRange(c, gtlt0, x) ==
    XRangeOf(c,
             IF gtlt0 = <<"=">> /\ (isX(x.M) \/ isX(x.m) \/ isX(x.p)) THEN <<>> ELSE gtlt0,
             x,
             isX(x.M),
             isX(x.M) \/ isX(x.m),
             isX(x.M) \/ isX(x.m) \/ isX(x.p))

\* The caret, tilde and x-range patterns tried on a comparator.
CaretMatch(c) ==
    IF Len(c) > 0 /\ c[1] = "^" THEN XRangePlain(Tail(c)) ELSE XRangePlain(<<>>)

TildeLen(c) ==
    IF Len(c) >= 2 /\ c[1] = "~" /\ c[2] = ">" THEN 2
    ELSE IF Len(c) >= 1 /\ c[1] = "~" THEN 1 ELSE 0

TildeMatch(c) ==
    IF TildeLen(c) > 0 THEN XRangePlain(SubSeq(c, TildeLen(c) + 1, Len(c)))
    ELSE XRangePlain(<<>>)

XRangeMatch(c) == XRangePlain(SubSeq(c, Len(GtltOf(c)) + 1, Len(c)))

RewriteMatched(c, caret, tilde, xr) ==
    IF caret.ok THEN Comparators(replaceCaret(caret))
    ELSE IF tilde.ok THEN Comparators(replaceTilde(tilde))
    ELSE IF xr.ok THEN replaceXRange(c, GtltOf(c), xr)
    ELSE ParseComparator(replaceStars(c))

\* parseComparator followed by new Comparator: carets, then tildes, then
\* x-ranges, then stars.
RewriteComparator(c) ==
    RewriteMatched(c, CaretMatch(c), TildeMatch(c), XRangeMatch(c))

\* String.prototype.split("||").
RECURSIVE SplitOr(_)
SplitOr(s) ==
    IF \A i \in 1..(Len(s) - 1) : ~(s[i] = "|" /\ s[i + 1] = "|") THEN <<s>>
    ELSE LET k == CHOOSE i \in 1..(Len(s) - 1) :
                      /\ s[i] = "|" /\ s[i + 1] = "|"
                      /\ \A j \in 1..(i - 1) : ~(s[j] = "|" /\ s[j + 1] = "|")
         IN  <<SubSeq(s, 1, k - 1)>> \o SplitOr(SubSeq(s, k + 2, Len(s)))

\* The blank-separated comparators of a trimmed comparator set: the one
\* empty comparator for the empty set.
ComparatorTexts(r) ==
    IF r = <<>> THEN <<<<>>>>
    ELSE SelectSeq(Split(r, " "), LAMBDA c : c # <<>>)

RECURSIVE Flatten(_)
Flatten(lists) ==
    IF Len(lists) = 0 THEN <<>> ELSE lists[1].comps \o Flatten(Tail(lists))

ParsedComparators(texts) ==
    [i \in 1..Len(texts) |-> RewriteComparator(texts[i])]

ComparatorSet(parsed) ==
    IF \A i \in 1..Len(parsed) : parsed[i].ok
    THEN Comparators(Flatten(parsed))
    ELSE InvalidComparator

\* Range.parseRange on one comparator set.
parseRange(r) == ComparatorSet(ParsedComparators(ComparatorTexts(Trim(r))))

ParsedSets(texts) == [i \in 1..Len(texts) |-> parseRange(texts[i])]

NonEmptySets(sets) == SelectSeq(sets, LAMBDA c : Len(c.comps) > 0)

RangeOf(sets) ==
    IF (\A i \in 1..Len(sets) : sets[i].ok) /\ Len(NonEmptySets(sets)) > 0
    THEN [ok |-> TRUE, set |-> NonEmptySets(sets)]
    ELSE [ok |-> FALSE, set |-> <<>>]

\* new Range(range): the comparator sets, or a TypeError (ok = FALSE) when a
\* comparator is invalid or no set is left.
SemverRange(range) == RangeOf(ParsedSets(SplitOr(range)))

\* semver.validRange(range) as a truth value: the range text when the range
\* parses, null otherwise (the TypeError is caught inside).
SemverValidRange(range) == SemverRange(range).ok

\* cmp(a, op, b) on the result of a.compare(b).
TestOperator(op, cmp) ==
    CASE op = ""   -> cmp = 0
      [] op = ">"  -> cmp > 0
      [] op = ">=" -> cmp >= 0
      [] op = "<"  -> cmp < 0
      [] op = "<=" -> cmp <= 0

\* Comparator.test
ComparatorTest(c, v) ==
    IF c.semver = ANY THEN TRUE
    ELSE TestOperator(c.operator, SemverCompare(v, c.semver))

\* testSet: every comparator passes, and a pre-release version passes only
\* when some comparator names a pre-release of the same major.minor.patch.
testSet(set, v) ==
    /\ \A i \in 1..Len(set) : ComparatorTest(set[i], v)
    /\ Len(v.prerelease) > 0 =>
          \E i \in 1..Len(set) :
              /\ set[i].semver # ANY
              /\ Len(set[i].semver.prerelease) > 0
              /\ compareMain(set[i].semver, v) = 0

SatisfiesRange(v, r) ==
    /\ r.ok
    /\ v # NoVersion
    /\ \E i \in 1..Len(r.set) : testSet(r.set[i].comps, v)

\* semver.satisfies(version, range): false when the range or the version
\* does not parse.
SemverSatisfies(version, range) ==
    SatisfiesRange(SemverParse(version), SemverRange(range))

(***************************************************************************)
(* getUpdateType                                                           *)
(***************************************************************************)
any == <<"a", "n", "y">>

star == <<"*">>

UpdateTypes == {"major", "minor", "patch", "prerelease", "none"}

\* The ! of a result of semver.gt; an exception stays an exception.
Negate(gt) ==
    IF gt = "TypeError" THEN "TypeError"
    ELSE IF gt = "true" THEN "false" ELSE "true"

\* A slip: the null checks left out, so that semver.gt is called on null.
NotGreaterUnguarded(cleanCurrent, cleanLatest) ==
    Negate(SemverGt(cleanLatest, cleanCurrent))

\* A slip: latest never compared with current, only the null checks made.
NotGreaterNullOnly(cleanCurrent, cleanLatest) ==
    IF cleanCurrent = Null \/ cleanLatest = Null THEN "true" ELSE "false"

\* !cleanCurrent || !cleanLatest || !semver.gt(cleanLatest, cleanCurrent):
\* "true", "false", or "TypeError" when semver.gt throws.
NotGreater(cleanCurrent, cleanLatest) ==
    IF cleanCurrent = Null \/ cleanLatest = Null THEN "true"
    ELSE Negate(SemverGt(cleanLatest, cleanCurrent))

\* Lines 56-63: the diff kept when it is one of the four update types.
KeepUpdateType(diff) ==
    IF diff = "null" THEN "none"
    ELSE IF diff \in {"major", "minor", "patch", "prerelease"} THEN diff
    ELSE "none"

\* Lines 54-63: the diff of the two clean versions.
ClassifyDiff(cleanCurrent, cleanLatest) ==
    KeepUpdateType(SemverDiff(cleanCurrent, cleanLatest))

\* A slip: a range that latest satisfies answered 'none' before any
\* comparison.
UpdateTypeOfRangeFirst(currentVersion, cleanCurrent, cleanLatest, notGreater) ==
    IF /\ SemverValidRange(currentVersion)
       /\ cleanLatest # Null
       /\ SemverSatisfies(cleanLatest, currentVersion)
    THEN "none"
    ELSE IF notGreater = "true" THEN "none"
    ELSE ClassifyDiff(cleanCurrent, cleanLatest)

\* A slip: the comparison of lines 45-51 left out, so that a range which
\* latest satisfies always goes on to the diff.
UpdateTypeOfUnchecked(currentVersion, cleanCurrent, cleanLatest, notGreater) ==
    IF notGreater = "TypeError" THEN "TypeError"
    ELSE IF notGreater = "true" THEN
        IF toLowerCase(currentVersion) = any \/ currentVersion = star THEN "none"
        ELSE IF /\ SemverValidRange(currentVersion)
                /\ cleanLatest # Null
                /\ SemverSatisfies(cleanLatest, currentVersion)
            THEN IF cleanCurrent = Null THEN "TypeError"
                 ELSE ClassifyDiff(cleanCurrent, cleanLatest)
        ELSE "none"
    ELSE ClassifyDiff(cleanCurrent, cleanLatest)

\* Lines 21-63, once the two versions are coerced and cleaned.
UpdateTypeOf(currentVersion, cleanCurrent, cleanLatest, notGreater) ==
    IF notGreater = "TypeError" THEN "TypeError"
    ELSE IF notGreater = "true" THEN
        IF toLowerCase(currentVersion) = any \/ currentVersion = star THEN "none"
        ELSE IF /\ SemverValidRange(currentVersion)
                /\ cleanLatest # Null
                /\ SemverSatisfies(cleanLatest, currentVersion)
            THEN \* proceed with the diff, after the second check
                 IF NotGreater(cleanCurrent, cleanLatest) = "true" THEN "none"
                 ELSE ClassifyDiff(cleanCurrent, cleanLatest)
        ELSE IF ~SemverValidRange(currentVersion) THEN "none"
        ELSE IF NotGreater(cleanCurrent, cleanLatest) = "true" THEN "none"
        ELSE ClassifyDiff(cleanCurrent, cleanLatest)
    ELSE ClassifyDiff(cleanCurrent, cleanLatest)

CleanVersion(version) == SemverValid(SemverCoerce(version))

\* The update type, or "TypeError" when an exception leaves the function.
getUpdateType(currentVersion, latestVersion) ==
    UpdateTypeOf(currentVersion, CleanVersion(currentVersion),
                 CleanVersion(latestVersion),
                 NotGreater(CleanVersion(currentVersion), CleanVersion(latestVersion)))

(***************************************************************************)
(* The inputs of the classification: specifiers as manifests hold them and *)
(* versions as registries return them.                                     *)
(***************************************************************************)
Components == 0..MaxComp

\* The constraint operators a specifier may start with.
Operators ==
    {<<"^">>, <<"~">>, <<">", "=">>, <<">">>, <<"<", "=">>, <<"<">>,
     <<"=", "=">>, <<"~", "=">>}

Dot == <<".">>

\* N.M.P
FullVersions ==
    {NatToStr(a) \o Dot \o NatToStr(b) \o Dot \o NatToStr(c) :
        a \in Components, b \in Components, c \in Components}

\* N and N.M
TruncatedVersions ==
    {NatToStr(a) : a \in Components}
        \cup {NatToStr(a) \o Dot \o NatToStr(b) : a \in Components, b \in Components}

alpha == <<"-", "a", "l", "p", "h", "a">>

beta == <<"-", "b", "e", "t", "a">>

\* A component of 17 digits, one more than coercion considers.
LongComponent ==
    <<"1", "0", "0", "0", "0", "0", "0", "0", "0", "0", "0", "0", "0", "0", "0", "0", "0">>

\* Text that is no plain version: pseudo-versions, wildcards, ranges, several
\* digits in a component, a leading zero, a leading v, stray text.
OtherPayloads ==
    { <<>>,
      <<"a", "n", "y">>, <<"A", "N", "Y">>, <<"A", "n", "y">>, <<"*">>,
      <<"l", "a", "t", "e", "s", "t">>,
      <<"1", ".", "x">>, <<"x">>,
      <<"1", "0", ".", "0", ".", "0">>, <<"1", ".", "1", "0", ".", "0">>,
      <<"0", "1", ".", "0", ".", "0">>,
      <<"v", "1", ".", "0", ".", "0">>,
      <<"1", ".", "0", ".", "0", " ", "<", "2", ".", "0", ".", "0">>,
      <<"1", ".", "0", ",", "<", "2", ".", "0">>,
      <<"1", ".", "0", ".", "0", ".", "1">>,
      <<"1", ".", "0", ".", "0", " ", "|", "|", " ", "2", ".", "x">>,
      <<"1", ".", "0", ".", "0", "-", "r", "c", ".", "1">>,
      LongComponent, LongComponent \o <<".", "0", ".", "0">> }

Payloads ==
    FullVersions \cup TruncatedVersions \cup {v \o alpha : v \in FullVersions}
        \cup OtherPayloads

LatestVersions ==
    FullVersions \cup {v \o beta : v \in FullVersions}
        \cup { <<>>, <<"l", "a", "t", "e", "s", "t">>, <<"1", ".", "1">>,
               <<"1", "0", ".", "0", ".", "0">>, <<"1", ".", "1", "0", ".", "0">>,
               <<"1", ".", "0", ".", "0", "-", "r", "c", ".", "1">>,
               <<"1", ".", "0", ".", "0", "-", "r", "c", ".", "2">> }

(***************************************************************************)
(* The manifest updaters.                                                  *)
(*                                                                         *)
(* A parsed JSON or YAML object is a function from its keys; a missing key *)
(* is a key outside its domain.  requirements.txt is a sequence of lines.  *)
(***************************************************************************)
\* obj[key] of JavaScript: undefined (here the empty string, falsy as well)
\* for a missing key.
Get(obj, key) == IF key \in DOMAIN obj THEN obj[key] ELSE <<>>

\* A slip: a caret written where the specifier has no operator.
LeadingOperatorOrCaret(specifier) ==
    IF Len(specifier) > 0 /\ specifier[1] \in {"~", "^", ">", "=", "<"}
    THEN <<specifier[1]>>
    ELSE <<"^">>

\* A slip: the whole leading run of operator characters and digits taken
\* as the prefix, /^[~^>=<\d]+/.
RECURSIVE LeadingOperatorRun(_)
LeadingOperatorRun(specifier) ==
    IF Len(specifier) > 0 /\ (specifier[1] \in {"~", "^", ">", "=", "<"} \/ IsDigit(specifier[1]))
    THEN <<specifier[1]>> \o LeadingOperatorRun(Tail(specifier))
    ELSE <<>>

\* currentVersion.match(/^[~^>=<]/)?.[0] || "" : the first character of the
\* specifier when it is one of ~ ^ > = <, the empty string otherwise.
LeadingOperator(specifier) ==
    IF Len(specifier) > 0 /\ specifier[1] \in {"~", "^", ">", "=", "<"}
    THEN <<specifier[1]>>
    ELSE <<>>

\* `${prefix}${dependency.latestVersion}`
RewriteSpecifier(specifier, latest) == LeadingOperator(specifier) \o latest

NpmSections == <<"dependencies", "devDependencies", "optionalDependencies">>

ComposerSections == <<"require", "require-dev">>

PubspecSections == <<"dependencies", "dev_dependencies", "dependency_overrides">>

\* packageJson[section] && packageJson[section][dependency.label], for the
\* string entries of package.json and composer.json.
HasEntry(json, section, label) ==
    /\ section \in DOMAIN json
    /\ Get(json[section], label) # <<>>

\* The loop over the sections of package.json or composer.json: every
\* section that holds the package gets the rewritten specifier.
UpdateJsonSections(json, sections, label, latest) ==
    [sec \in DOMAIN json |->
        IF sec \in Range(sections) /\ HasEntry(json, sec, label)
        THEN [json[sec] EXCEPT ![label] = RewriteSpecifier(@, latest)]
        ELSE json[sec]]

\* The flag `updated` after that loop.
JsonUpdated(json, sections, label) ==
    \E i \in 1..Len(sections) : HasEntry(json, sections[i], label)

\* The values of a pubspec entry: a string, a map (its keys and their values
\* as text), a number, or null for an entry without value.
StringValue(text) == [type |-> "string", text |-> text, fields |-> <<>>]

MapValue(fields) == [type |-> "object", text |-> <<>>, fields |-> fields]

NumberValue(text) == [type |-> "number", text |-> text, fields |-> <<>>]

NullValue == [type |-> "null", text |-> <<>>, fields |-> <<>>]

\* The truth value of a pubspec value: null and the empty string are falsy.
Truthy(value) ==
    /\ value.type # "null"
    /\ value.type = "string" => value.text # <<>>

\* pubspecYaml[section] && pubspecYaml[section][dependency.label]
HasPubspecEntry(yaml, section, label) ==
    /\ section \in DOMAIN yaml
    /\ label \in DOMAIN yaml[section]
    /\ Truthy(yaml[section][label])

\* A slip: every map taken as rewritten, with or without a version.
PubspecRewritableAnyMap(value) ==
    value.type = "string" \/ value.type = "object"

\* One entry of pubspec.yaml is rewritten when it is a string, or a map
\* with a version.
PubspecRewritable(value) ==
    \/ value.type = "string"
    \/ value.type = "object" /\ Get(value.fields, "version") # <<>>

RewritePubspecValue(value, latest) ==
    IF value.type = "string" THEN StringValue(RewriteSpecifier(value.text, latest))
    ELSE IF value.type = "object" /\ Get(value.fields, "version") # <<>>
        THEN MapValue([value.fields EXCEPT !["version"] = RewriteSpecifier(@, latest)])
    ELSE value

\* The loop over the sections of pubspec.yaml.
UpdatePubspecSections(yaml, label, latest) ==
    [sec \in DOMAIN yaml |->
        IF sec \in Range(PubspecSections) /\ HasPubspecEntry(yaml, sec, label)
        THEN [yaml[sec] EXCEPT ![label] = RewritePubspecValue(@, latest)]
        ELSE yaml[sec]]

PubspecUpdated(yaml, label) ==
    \E i \in 1..Len(PubspecSections) :
        /\ HasPubspecEntry(yaml, PubspecSections[i], label)
        /\ PubspecRewritable(yaml[PubspecSections[i]][label])

\* String.prototype.includes
Includes(s, sub) ==
    \E i \in 1..(Len(s) - Len(sub) + 1) : SubSeq(s, i, i + Len(sub) - 1) = sub

\* One character of the package name, used as a pattern without escaping
\* and without regard to letter case: a dot stands for any character.
LabelCharMatches(lc, c) == lc = "." \/ ToLowerChar(lc) = ToLowerChar(c)

\* packageRegex.exec(line) for ^\s*(label)\s*([<>=!~^].*)?$ with flag i.
MatchesPackage(line, label) ==
    LET body == DropLeading(line, {" "})
        rest == DropLeading(SubSeq(body, Len(label) + 1, Len(body)), {" "})
    IN  /\ Len(body) >= Len(label)
        /\ \A i \in 1..Len(label) : LabelCharMatches(label[i], body[i])
        /\ (rest = <<>> \/ rest[1] \in {"<", ">", "=", "!", "~", "^"})

\* The operator kept for a requirements.txt line.
PypiOperator(line) ==
    IF Includes(line, <<"=", "=">>) THEN <<"=", "=">>
    ELSE IF Includes(line, <<">", "=">>) THEN <<">", "=">>
    ELSE IF Includes(line, <<">">>) THEN <<">">>
    ELSE IF Includes(line, <<"<", "=">>) THEN <<"<", "=">>
    ELSE IF Includes(line, <<"<">>) THEN <<"<">>
    ELSE IF Includes(line, <<"~", "=">>) THEN <<"~", "=">>
    ELSE <<"=", "=">>

\* `${dependency.label}${operator}${dependency.latestVersion}`
RewriteLine(line, label, latest) == label \o PypiOperator(line) \o latest

\* The index of the first line that names the package, 0 when none does.
FirstMatchingLine(lines, label) ==
    IF \E i \in 1..Len(lines) : MatchesPackage(lines[i], label)
    THEN CHOOSE i \in 1..Len(lines) :
             /\ MatchesPackage(lines[i], label)
             /\ \A j \in 1..(i - 1) : ~MatchesPackage(lines[j], label)
    ELSE 0

\* The loop over the lines of requirements.txt: the first matching line is
\* rewritten.
UpdateLines(lines, label, latest) ==
    LET k == FirstMatchingLine(lines, label)
    IN  IF k = 0 THEN lines
        ELSE [lines EXCEPT ![k] = RewriteLine(@, label, latest)]

(***************************************************************************)
(* The manifests of the workspaces the updaters are run on.                *)
(***************************************************************************)
pkg == <<"p", "k", "g">>

lib == <<"l", "i", "b">>

Labels == {pkg, lib}

\* A package whose name holds a dot, and a package whose name differs from
\* it in the place of the dot.
dotted == <<"a", ".", "b">>

lookalike == <<"a", "x", "b">>

v100 == <<"1", ".", "0", ".", "0">>

LibSpecifier == <<"^">> \o v100

\* The specifiers of the package under update: every operator before a
\* version, the bare version, a range, pseudo-versions and the empty string.
UpdaterSpecifiers ==
    {op \o v100 : op \in Operators \cup {<<>>}}
        \cup { <<"*">>, <<"a", "n", "y">>, <<>>,
               <<">", "=">> \o v100 \o <<" ", "<", "2", ".", "0", ".", "0">> }

\* The latest versions the updaters are given.
NewVersions == {<<"2", ".", "0", ".", "0">>, <<"1", ".", "5", ".", "0">>}

\* A section that holds the package with the given value when it is one of
\* `with`, and the other package when it is the first section.
SectionEntries(sec, with, first, value, other) ==
    [l \in (IF sec \in with THEN {pkg} ELSE {}) \cup (IF sec = first THEN {lib} ELSE {})
        |-> IF l = pkg THEN value ELSE other]

\* package.json: the package in the sections `with`, the other package in
\* dependencies, and both in peerDependencies, which is no section the
\* updater rewrites.
PackageJsonOf(with, specifier) ==
    [sec \in with \cup {"dependencies", "peerDependencies"} |->
        IF sec = "peerDependencies"
        THEN [l \in Labels |-> LibSpecifier]
        ELSE SectionEntries(sec, with, "dependencies", specifier, LibSpecifier)]

PackageJsons ==
    {PackageJsonOf(with, sp) :
        with \in SUBSET Range(NpmSections), sp \in UpdaterSpecifiers}

ComposerJsonOf(with, specifier) ==
    [sec \in with \cup {"require"} |->
        SectionEntries(sec, with, "require", specifier, LibSpecifier)]

ComposerJsons ==
    {ComposerJsonOf(with, sp) :
        with \in SUBSET Range(ComposerSections), sp \in UpdaterSpecifiers}

url == <<"u", "r", "l">>

\* The values of a pubspec entry: flat strings, hosted maps with a version,
\* maps without version (git, path, sdk), a number and an empty entry.
PubspecValues ==
    {StringValue(sp) : sp \in UpdaterSpecifiers}
        \cup {MapValue([k \in {"version", "hosted"} |->
                            IF k = "version" THEN sp ELSE url]) :
                 sp \in {LibSpecifier, v100, <<">", "=">> \o v100, <<"a", "n", "y">>}}
        \cup {MapValue([k \in {key} |-> url]) : key \in {"git", "path", "sdk"}}
        \cup {NumberValue(<<"1">>), NullValue}

PubspecYamlOf(with, value) ==
    [sec \in with \cup {"dependencies"} |->
        SectionEntries(sec, with, "dependencies", value, StringValue(LibSpecifier))]

PubspecYamls ==
    {PubspecYamlOf(with, value) :
        with \in { {}, {"dependencies"}, {"dev_dependencies"},
                   {"dependencies", "dependency_overrides"} },
        value \in PubspecValues}

\* The lines of requirements.txt that name the package, or a package whose
\* name starts like it.
RequirementLines ==
    { pkg,
      pkg \o <<"=", "=">> \o v100,
      pkg \o <<">", "=">> \o v100,
      pkg \o <<">">> \o v100,
      pkg \o <<"<", "=">> \o v100,
      pkg \o <<"<">> \o v100,
      pkg \o <<"~", "=">> \o v100,
      pkg \o <<"!", "=">> \o v100,
      pkg \o <<"<", "=", "2", ".", "0", ",", ">", "=", "1", ".", "0">>,
      <<" ", "P", "K", "G", " ", "=", "=", " ">> \o v100,
      pkg \o <<"-", "x", "=", "=">> \o v100 }

comment == <<"#", " ", "d", "e", "p", "s">>

RequirementsTxts ==
    {<<comment, line, lib \o <<">", "=">> \o v100>> : line \in RequirementLines}
        \cup {<<line, pkg \o <<"<">> \o v100>> : line \in RequirementLines}
        \cup {<<lib>>}
        \cup {<<lookalike \o <<"=", "=">> \o v100, dotted \o <<">", "=">> \o v100>>}

(***************************************************************************)
(* State.                                                                  *)
(***************************************************************************)
VARIABLES
    operator,        \* the leading operator of the current specifier, or <<>>
    payload,         \* what follows it
    latestVersion,   \* the version the registry returned
    updateType,      \* the result of getUpdateType, "pending" before the call
    packageJson,     \* the parsed package.json, <<>> when there is none
    composerJson,    \* the parsed composer.json, <<>> when there is none
    pubspecYaml,     \* the parsed pubspec.yaml, <<>> when there is none
    requirementsTxt, \* the lines of requirements.txt, <<>> when there is none
    opened,          \* the content the last updater call read, <<>> if none
    call,            \* the last updatePackage call: arguments and result
    entry,           \* the manifest entry a parser is processing
    response,        \* what the registry fetcher returns for it, <<>> for undefined
    scanned,         \* what the parser made of the entry
    excludeFolders,  \* the setting pkgVersion.excludeFolders
    command,         \* the last exclusion command and what it was given
    invocations,     \* the updatePackage calls in progress, by number
    batch            \* the updateAllPackages loop: its list, position and counts

classifyVars == <<operator, payload, latestVersion, updateType>>

manifestVars == <<packageJson, composerJson, pubspecYaml, requirementsTxt>>

scanVars == <<entry, response, scanned>>

exclusionVars == <<excludeFolders, command>>

taskVars == <<invocations, batch>>

vars == <<operator, payload, latestVersion, updateType, packageJson, composerJson,
          pubspecYaml, requirementsTxt, opened, call, scanVars, exclusionVars, taskVars>>

\* The specifier as the manifest holds it.
currentVersion == operator \o payload

\* No entry under scan, nothing scanned, no exclusion command run.
NoEntry == [packageManager |-> "", label |-> <<>>, value |-> <<>>]

NoScan == [done |-> FALSE, listed |-> FALSE, fetched |-> FALSE, classified |-> FALSE,
           failed |-> FALSE, dependency |-> <<>>, outdated |-> FALSE,
           returned |-> <<>>]

NoCommand == [name |-> "", step |-> 0, folder |-> <<>>, workspace |-> <<>>,
              pattern |-> <<>>, before |-> <<>>, removed |-> <<>>]

NoScanning == entry = NoEntry /\ response = <<>> /\ scanned = NoScan

NoExclusion == excludeFolders = <<>> /\ command = NoCommand

NoBatch == [running |-> FALSE]

NoTasks == invocations = <<>> /\ batch = NoBatch

NoCall ==
    [packageManager |-> "", label |-> <<>>, latestVersion |-> <<>>, returned |-> FALSE]

\* Classification: every pair of a specifier and a latest version; no
\* manifest is involved.
Init ==
    /\ operator \in Operators \cup {<<>>}
    /\ payload \in Payloads
    /\ latestVersion \in LatestVersions
    /\ updateType = "pending"
    /\ packageJson = <<>>
    /\ composerJson = <<>>
    /\ pubspecYaml = <<>>
    /\ requirementsTxt = <<>>
    /\ opened = <<>>
    /\ call = NoCall
    /\ NoScanning
    /\ NoExclusion
    /\ NoTasks

\* One call of getUpdateType(currentVersion, latestVersion).
Classify ==
    /\ updateType = "pending"
    /\ updateType' = getUpdateType(currentVersion, latestVersion)
    /\ UNCHANGED <<operator, payload, latestVersion, manifestVars, opened, call,
                   scanVars, exclusionVars, taskVars>>

Next == Classify

Spec == Init /\ [][Next]_vars

\* Updates: a workspace with one manifest.
InitUpdate ==
    /\ operator = <<>>
    /\ payload = <<>>
    /\ latestVersion = <<>>
    /\ updateType = "pending"
    /\ opened = <<>>
    /\ call = NoCall
    /\ NoScanning
    /\ NoExclusion
    /\ NoTasks
    /\ \/ /\ packageJson \in PackageJsons
          /\ composerJson = <<>> /\ pubspecYaml = <<>> /\ requirementsTxt = <<>>
       \/ /\ composerJson \in ComposerJsons
          /\ packageJson = <<>> /\ pubspecYaml = <<>> /\ requirementsTxt = <<>>
       \/ /\ pubspecYaml \in PubspecYamls
          /\ packageJson = <<>> /\ composerJson = <<>> /\ requirementsTxt = <<>>
       \/ /\ requirementsTxt \in RequirementsTxts
          /\ packageJson = <<>> /\ composerJson = <<>> /\ pubspecYaml = <<>>

\* The outcome of a call: what it returned and what it read.
Returned(pm, label, latest, result, document) ==
    /\ call' = [packageManager |-> pm, label |-> label, latestVersion |-> latest,
                returned |-> result]
    /\ opened' = document

\* updatePackage on an npm dependency: updateNpmPackage and
\* updatePackageJsonDependency.  `found` is false when no package.json is
\* found or the file pick is dismissed, `applied` is the result of applyEdit.
UpdateNpm(label, latest, found, applied) ==
    /\ packageJson # <<>>
    /\ IF latest = <<>> \/ ~found
       THEN /\ Returned("npm", label, latest, FALSE, <<>>)
            /\ UNCHANGED packageJson
       ELSE IF ~JsonUpdated(packageJson, NpmSections, label) \/ ~applied
       THEN /\ Returned("npm", label, latest, FALSE, packageJson)
            /\ UNCHANGED packageJson
       ELSE /\ packageJson' = UpdateJsonSections(packageJson, NpmSections, label, latest)
            /\ Returned("npm", label, latest, TRUE, packageJson)
    /\ UNCHANGED <<classifyVars, composerJson, pubspecYaml, requirementsTxt, scanVars, exclusionVars, taskVars>>

\* updatePackage on a Composer dependency: updateComposerPackage.
UpdateComposer(label, latest, found, applied) ==
    /\ composerJson # <<>>
    /\ IF latest = <<>> \/ ~found
       THEN /\ Returned("composer", label, latest, FALSE, <<>>)
            /\ UNCHANGED composerJson
       ELSE IF ~JsonUpdated(composerJson, ComposerSections, label) \/ ~applied
       THEN /\ Returned("composer", label, latest, FALSE, composerJson)
            /\ UNCHANGED composerJson
       ELSE /\ composerJson' =
                   UpdateJsonSections(composerJson, ComposerSections, label, latest)
            /\ Returned("composer", label, latest, TRUE, composerJson)
    /\ UNCHANGED <<classifyVars, packageJson, pubspecYaml, requirementsTxt, scanVars, exclusionVars, taskVars>>

\* updatePackage on a PyPI dependency: updatePypiPackage.
UpdatePypi(label, latest, found, applied) ==
    /\ requirementsTxt # <<>>
    /\ IF latest = <<>> \/ ~found
       THEN /\ Returned("pypi", label, latest, FALSE, <<>>)
            /\ UNCHANGED requirementsTxt
       ELSE IF FirstMatchingLine(requirementsTxt, label) = 0 \/ ~applied
       THEN /\ Returned("pypi", label, latest, FALSE, requirementsTxt)
            /\ UNCHANGED requirementsTxt
       ELSE /\ requirementsTxt' = UpdateLines(requirementsTxt, label, latest)
            /\ Returned("pypi", label, latest, TRUE, requirementsTxt)
    /\ UNCHANGED <<classifyVars, packageJson, composerJson, pubspecYaml, scanVars, exclusionVars, taskVars>>

\* updatePackage on a Dart dependency: updatePubDevPackage.
UpdateDart(label, latest, found, applied) ==
    /\ pubspecYaml # <<>>
    /\ IF latest = <<>> \/ ~found
       THEN /\ Returned("dart", label, latest, FALSE, <<>>)
            /\ UNCHANGED pubspecYaml
       ELSE IF ~PubspecUpdated(pubspecYaml, label) \/ ~applied
       THEN /\ Returned("dart", label, latest, FALSE, pubspecYaml)
            /\ UNCHANGED pubspecYaml
       ELSE /\ pubspecYaml' = UpdatePubspecSections(pubspecYaml, label, latest)
            /\ Returned("dart", label, latest, TRUE, pubspecYaml)
    /\ UNCHANGED <<classifyVars, packageJson, composerJson, requirementsTxt, scanVars, exclusionVars, taskVars>>

NextUpdate ==
    \E label \in Labels \cup {dotted}, latest \in NewVersions \cup {<<>>},
       found, applied \in BOOLEAN :
        \/ UpdateNpm(label, latest, found, applied)
        \/ UpdateComposer(label, latest, found, applied)
        \/ UpdatePypi(label, latest, found, applied)
        \/ UpdateDart(label, latest, found, applied)

SpecUpdate == InitUpdate /\ [][NextUpdate]_vars

(***************************************************************************)
(* The manifest parsers.  Each parser makes one promise per entry of the   *)
(* manifest: it asks the registry for the latest version and builds a      *)
(* Dependency.  One entry and the registry's answer to it are followed.    *)
(***************************************************************************)
NoClassification ==
    operator = <<>> /\ payload = <<>> /\ latestVersion = <<>> /\ updateType = "pending"

NoManifest ==
    /\ packageJson = <<>> /\ composerJson = <<>> /\ pubspecYaml = <<>>
    /\ requirementsTxt = <<>> /\ opened = <<>> /\ call = NoCall

\* new Dependency(label, version, ..., latestVersion, updateType,
\* packageManager, ...); <<>> for an undefined latestVersion.
Dependency(label, version, latest, type, pm) ==
    [label |-> label, version |-> version, latestVersion |-> latest,
     updateType |-> type, packageManager |-> pm]

\* A slip: the update type left out of the filter.
IsOutdatedAnyType(dep) == dep.latestVersion # <<>>

\* The filter of getAllOutdatedDependencies:
\* dep.updateType && dep.updateType !== "none" && dep.latestVersion
IsOutdated(dep) == dep.updateType # "none" /\ dep.latestVersion # <<>>

\* The guard and the switch of updatePackage: the updater the dependency
\* is handed to, or the reason it is rejected for.
UpdatePackageDispatch(dep) ==
    IF dep.packageManager = "" \/ dep.latestVersion = <<>> THEN "missing"
    ELSE IF dep.packageManager \in {"npm", "composer", "pypi", "dart"}
        THEN dep.packageManager
    ELSE "unsupported"

\* An entry that gave a Dependency, with what was called to build it.
Listed(dep, fetched, classified) ==
    [done |-> TRUE, listed |-> TRUE, fetched |-> fetched, classified |-> classified,
     failed |-> FALSE, dependency |-> dep, outdated |-> IsOutdated(dep),
     returned |-> <<dep>>]

\* An entry the parser passes over, and an entry on which it throws: the
\* catch block makes the whole file give no dependency.
Omitted == [NoScan EXCEPT !.done = TRUE]

Failed == [NoScan EXCEPT !.done = TRUE, !.failed = TRUE]

\* A slip: the update type computed whatever the fetch returned.
ResolveDependencyUnchecked(pm, label, version, latest, fetched) ==
    Listed(Dependency(label, version, latest, getUpdateType(version, latest), pm),
           fetched, TRUE)

\* if (latestVersion) { getUpdateType ... } else { ... undefined, "none" ... }
ResolveDependency(pm, label, version, latest, fetched) ==
    IF latest # <<>>
    THEN Listed(Dependency(label, version, latest, getUpdateType(version, latest), pm),
                fetched, TRUE)
    ELSE Listed(Dependency(label, version, <<>>, "none", pm), fetched, FALSE)

\* String.prototype.startsWith
StartsWith(s, prefix) ==
    Len(s) >= Len(prefix) /\ SubSeq(s, 1, Len(prefix)) = prefix

\* composer.json: php and the extensions are platform requirements.
PlatformRequirement(label) ==
    toLowerCase(label) = <<"p", "h", "p">> \/ StartsWith(label, <<"e", "x", "t", "-">>)

\* requirements.txt: empty lines, comments, options and local paths.
PypiIgnored(trimmedLine) ==
    trimmedLine = <<>> \/ trimmedLine[1] \in {"#", "-", "."}

\* The first group of /^([^=><!~\s]+)\s*([=><!~]=?.*)?/ : the name.
RECURSIVE PypiName(_)
PypiName(trimmedLine) ==
    IF Len(trimmedLine) > 0 /\ trimmedLine[1] \notin {"=", ">", "<", "!", "~", " "}
    THEN <<trimmedLine[1]>> \o PypiName(Tail(trimmedLine))
    ELSE <<>>

\* The text after the name and the blanks that follow it.
AfterName(trimmedLine) ==
    DropLeading(SubSeq(trimmedLine, Len(PypiName(trimmedLine)) + 1, Len(trimmedLine)),
                {" "})

\* match[2] ? match[2].trim() : "latest"
PypiSpecifier(trimmedLine) ==
    IF /\ AfterName(trimmedLine) # <<>>
       /\ AfterName(trimmedLine)[1] \in {"=", ">", "<", "!", "~"}
    THEN Trim(AfterName(trimmedLine))
    ELSE <<"l", "a", "t", "e", "s", "t">>

\* A slip: sdk entries listed like the other maps.
DartSkippedNever(value) == FALSE

\* typeof depValue === "object" && depValue.sdk
DartSkipped(value) == value.type = "object" /\ Get(value.fields, "sdk") # <<>>

\* The version shown for a pubspec entry.
DartCurrentVersion(value) ==
    IF value.type = "string" THEN value.text
    ELSE IF value.type # "object" THEN <<"u", "n", "k", "n", "o", "w", "n">>
    ELSE IF Get(value.fields, "git") # <<>>
        THEN <<"g", "i", "t", ":">> \o value.fields["git"]
    ELSE IF Get(value.fields, "path") # <<>>
        THEN <<"p", "a", "t", "h", ":">> \o value.fields["path"]
    ELSE IF Get(value.fields, "hosted") # <<>>
        THEN <<"h", "o", "s", "t", "e", "d", ":", "u", "n", "d", "e", "f", "i", "n", "e", "d">>
    ELSE IF Get(value.fields, "version") # <<>> THEN value.fields["version"]
    ELSE <<"{", "}">>

canCheckForUpdates(value) ==
    /\ value.type = "string"
    /\ ~StartsWith(value.text, <<"p", "a", "t", "h", ":">>)
    /\ ~StartsWith(value.text, <<"g", "i", "t", ":">>)
    /\ ~StartsWith(value.text, <<"h", "o", "s", "t", "e", "d", ":">>)

\* The entries the parsers are run on.
ScanSpecifiers == {LibSpecifier, v100, <<"*">>, <<">", "=">> \o v100}

ScanEntries ==
    {[packageManager |-> pm, label |-> pkg, value |-> StringValue(sp)] :
        pm \in {"npm", "composer"}, sp \in ScanSpecifiers}
    \cup {[packageManager |-> "composer", label |-> <<"P", "H", "P">>,
           value |-> StringValue(<<">", "=">> \o v100)]}
    \cup {[packageManager |-> "pypi", label |-> <<>>, value |-> StringValue(line)] :
              line \in RequirementLines \cup {comment, <<>>, <<"-", "r", " ", "x">>}}
    \cup {[packageManager |-> "dart", label |-> pkg, value |-> value] :
              value \in PubspecValues}

Responses == NewVersions \cup {v100, <<>>}

InitScan ==
    /\ NoClassification
    /\ NoManifest
    /\ NoExclusion
    /\ NoTasks
    /\ entry \in ScanEntries
    /\ response \in Responses
    /\ scanned = NoScan

getDepsInPackageJson ==
    /\ entry.packageManager = "npm"
    /\ scanned = NoScan
    /\ scanned' = ResolveDependency("npm", entry.label, entry.value.text, response, TRUE)
    /\ UNCHANGED <<classifyVars, manifestVars, opened, call, entry, response, exclusionVars, taskVars>>

getDepsInComposerJson ==
    /\ entry.packageManager = "composer"
    /\ scanned = NoScan
    /\ scanned' = IF PlatformRequirement(entry.label) THEN Omitted
                  ELSE ResolveDependency("composer", entry.label, entry.value.text,
                                         response, TRUE)
    /\ UNCHANGED <<classifyVars, manifestVars, opened, call, entry, response, exclusionVars, taskVars>>

getDepsInRequirementsTxt ==
    /\ entry.packageManager = "pypi"
    /\ scanned = NoScan
    /\ scanned' = IF PypiIgnored(Trim(entry.value.text)) THEN Omitted
                  ELSE IF PypiName(Trim(entry.value.text)) = <<>> THEN Omitted
                  ELSE ResolveDependency("pypi", PypiName(Trim(entry.value.text)),
                                         PypiSpecifier(Trim(entry.value.text)),
                                         response, TRUE)
    /\ UNCHANGED <<classifyVars, manifestVars, opened, call, entry, response, exclusionVars, taskVars>>

\* The entry that follows the one under study in the pubspec.yaml files:
\* a string entry for which the registry gives no version.
SiblingDependency == Dependency(lib, LibSpecifier, <<>>, "none", "dart")

\* What processPubspecDependencies makes of one entry.  typeof null is
\* "object", so depValue.sdk is read on a null entry and throws.
ProcessPubspecEntry(label, value, latest) ==
    IF value.type = "null" THEN Failed
    ELSE IF DartSkipped(value) THEN Omitted
    ELSE ResolveDependency("dart", label, DartCurrentVersion(value),
                           IF canCheckForUpdates(value) THEN latest ELSE <<>>,
                           canCheckForUpdates(value))

\* What getDepsInPubspecYaml returns for the file: the dependencies of the
\* entries in order, or [] from the catch block when an entry threw.
WithSibling(processed) ==
    [processed EXCEPT !.returned = IF processed.failed THEN <<>>
                                   ELSE @ \o <<SiblingDependency>>]

getDepsInPubspecYaml ==
    /\ entry.packageManager = "dart"
    /\ scanned = NoScan
    /\ scanned' = WithSibling(ProcessPubspecEntry(entry.label, entry.value, response))
    /\ UNCHANGED <<classifyVars, manifestVars, opened, call, entry, response, exclusionVars, taskVars>>

NextScan ==
    \/ getDepsInPackageJson
    \/ getDepsInComposerJson
    \/ getDepsInRequirementsTxt
    \/ getDepsInPubspecYaml

SpecScan == InitScan /\ [][NextScan]_vars

(***************************************************************************)
(* The exclusions: the setting pkgVersion.excludeFolders, the commands     *)
(* that write it and isFileExcluded that reads it.                         *)
(***************************************************************************)
requiredExclusions ==
    <<<<"*", "*", "/", "n", "o", "d", "e", "_", "m", "o", "d", "u", "l", "e", "s", "/", "*", "*">>,
      <<"*", "*", "/", "v", "e", "n", "d", "o", "r", "/", "*", "*", "/", "v", "e", "n", "d", "o", "r", "/", "*", "*">>,
      <<"*", "*", "/", "v", "e", "n", "v", "/", "*", "*">>,
      <<"*", "*", "/", ".", "g", "i", "t", "/", "*", "*">>,
      <<"*", "*", "/", "*", ".", "l", "o", "c", "k">>,
      <<"*", "*", "/", "y", "a", "r", "n", "-", "e", "r", "r", "o", "r", ".", "l", "o", "g">>,
      <<"*", "*", "/", "p", "a", "c", "k", "a", "g", "e", "-", "l", "o", "c", "k", ".", "j", "s", "o", "n">>,
      <<"*", "*", "/", "n", "p", "m", "-", "d", "e", "b", "u", "g", ".", "l", "o", "g">>,
      <<"*", "*", "/", "c", "o", "m", "p", "o", "s", "e", "r", ".", "l", "o", "c", "k">>,
      <<"*", "*", "/", "G", "e", "m", "f", "i", "l", "e", ".", "l", "o", "c", "k">>,
      <<"*", "*", "/", "C", "a", "r", "g", "o", ".", "l", "o", "c", "k">>,
      <<"*", "*", "/", "*", ".", "b", "a", "k">>,
      <<"*", "*", "/", "*", ".", "b", "a", "c", "k", "u", "p">>>>

oldVendorExclusion == <<"*", "*", "/", "v", "e", "n", "d", "o", "r", "/", "*", "*">>

nestedVendorExclusion == <<"*", "*", "/", "v", "e", "n", "d", "o", "r", "/", "*", "*", "/", "v", "e", "n", "d", "o", "r", "/", "*", "*">>

\* Array.prototype.includes on a list of patterns.
ListIncludes(list, pattern) == \E i \in DOMAIN list : list[i] = pattern

\* if (!list.includes(pattern)) list.push(pattern), for each pattern.
RECURSIVE PushEach(_, _)
PushEach(list, patterns) ==
    IF patterns = <<>> THEN list
    ELSE PushEach(IF ListIncludes(list, Head(patterns)) THEN list
                  ELSE Append(list, Head(patterns)),
                  Tail(patterns))

\* A slip: an exclusion of the fallback list of getExcludePattern pushed
\* with the required ones.
PushMissingAndBuild(list, required) ==
    PushEach(list, required \o <<<<"*", "*", "/", "b", "u", "i", "l", "d", "/", "*", "*">>>>)

\* The loop that pushes each required exclusion the list does not hold.
PushMissing(list, required) == PushEach(list, required)

\* currentExclusions[indexOfOldVendor] = "**/vendor/**/vendor/**"
ReplaceOldVendor(list) ==
    IF ~ListIncludes(list, oldVendorExclusion) THEN list
    ELSE [list EXCEPT ![CHOOSE i \in DOMAIN list :
                            /\ list[i] = oldVendorExclusion
                            /\ \A j \in 1..(i - 1) : list[j] # oldVendorExclusion]
                        = nestedVendorExclusion]

\* String.prototype.endsWith
EndsWith(s, suffix) ==
    Len(s) >= Len(suffix) /\ SubSeq(s, Len(s) - Len(suffix) + 1, Len(s)) = suffix

\* String.prototype.substring(start, end), which swaps its arguments when
\* start is greater than end.
Substring(s, start, end) ==
    IF start <= end THEN SubSeq(s, start + 1, end) ELSE SubSeq(s, end + 1, start)

\* replace(/\\/g, "/")
NormalizeSlashes(path) ==
    [i \in 1..Len(path) |-> IF path[i] = "\\" THEN "/" ELSE path[i]]

\* The folder path with the first workspace root it starts with cut off.
RECURSIVE RelativeTo(_, _)
RelativeTo(folderPath, workspaceFolders) ==
    IF workspaceFolders = <<>> THEN folderPath
    ELSE IF StartsWith(folderPath, Head(workspaceFolders))
        THEN Substring(folderPath, Len(Head(workspaceFolders)), Len(folderPath))
    ELSE RelativeTo(folderPath, Tail(workspaceFolders))

StripLeadingSlash(folderPath) ==
    IF StartsWith(folderPath, <<"/">>) THEN Substring(folderPath, 1, Len(folderPath))
    ELSE folderPath

\* `**/${folderPath}/**`
GlobPatternOf(folder, workspaceFolders) ==
    <<"*", "*", "/">>
    \o StripLeadingSlash(NormalizeSlashes(RelativeTo(folder, workspaceFolders)))
    \o <<"/", "*", "*">>

\* A slip: the last exclusion removed instead of the selected one.
RemoveLast(list, folderToRemove) == SubSeq(list, 1, Len(list) - 1)

\* excludeFolders.filter(f => f !== folderToRemove)
RemoveExclusion(list, folderToRemove) ==
    SelectSeq(list, LAMBDA f : f # folderToRemove)

\* normalizedPath.split("/").pop()
LastSegment(path) == Split(path, "/")[Len(Split(path, "/"))]

\* The directories isFileExcluded excludes whatever the setting holds.
BuiltInExcluded(normalizedPath) ==
    \/ Includes(normalizedPath, <<"/", "n", "o", "d", "e", "_", "m", "o", "d", "u", "l", "e", "s", "/">>)
    \/ /\ Includes(normalizedPath, <<"/", "v", "e", "n", "d", "o", "r", "/">>)
       /\ ~EndsWith(normalizedPath, <<"/", "v", "e", "n", "d", "o", "r">>)
       /\ LastSegment(normalizedPath) # <<"v", "e", "n", "d", "o", "r">>
    \/ Includes(normalizedPath, <<"/", "v", "e", "n", "v", "/">>)
    \/ Includes(normalizedPath, <<"/", ".", "g", "i", "t", "/">>)
    \/ Includes(normalizedPath, <<"/", "b", "u", "i", "l", "d", "/">>)
    \/ Includes(normalizedPath, <<"/", ".", "d", "a", "r", "t", "_", "t", "o", "o", "l", "/">>)

\* String.prototype.replace with a global pattern that is one fixed text:
\* the occurrences are taken from left to right and do not overlap.
RECURSIVE ReplaceAll(_, _, _)
ReplaceAll(s, from, to) ==
    IF s = <<>> THEN <<>>
    ELSE IF StartsWith(s, from)
        THEN to \o ReplaceAll(SubSeq(s, Len(from) + 1, Len(s)), from, to)
    ELSE <<s[1]>> \o ReplaceAll(Tail(s), from, to)

\* The five replacements that turn a glob pattern into the source of a
\* regular expression, in the order the code applies them.
GlobToRegex(pattern) ==
    ReplaceAll(
        ReplaceAll(
            ReplaceAll(
                ReplaceAll(
                    ReplaceAll(pattern, <<"*", "*">>, <<".", "*">>),
                    <<"*">>, <<"[", "^", "/", "]", "*">>),
                <<"?">>, <<"[", "^", "/", "]">>),
            <<".">>, <<"\\", ".">>),
        <<"/">>, <<"\\", "/">>)

\* The class [^\/] as the replacements leave it: any character but a slash.
NotSlashClass == <<"[", "^", "\\", "/", "]">>

\* Whether a prefix of the path matches the regular expression, with the
\* flag i.  The sources GlobToRegex gives for patterns of letters, digits,
\* '-', '_', '.', '/', '*' and '?' hold escaped characters, plain
\* characters, the class [^\/] and the class followed by a star; all of
\* them compile, so the catch block is not entered.
RECURSIVE RegexMatchesAt(_, _)
RegexMatchesAt(regex, path) ==
    IF regex = <<>> THEN TRUE
    ELSE IF StartsWith(regex, NotSlashClass \o <<"*">>)
        THEN \/ RegexMatchesAt(SubSeq(regex, Len(NotSlashClass) + 2, Len(regex)), path)
             \/ /\ path # <<>>
                /\ path[1] # "/"
                /\ RegexMatchesAt(regex, Tail(path))
    ELSE IF StartsWith(regex, NotSlashClass)
        THEN /\ path # <<>>
             /\ path[1] # "/"
             /\ RegexMatchesAt(SubSeq(regex, Len(NotSlashClass) + 1, Len(regex)),
                               Tail(path))
    ELSE IF regex[1] = "\\"
        THEN /\ path # <<>>
             /\ ToLowerChar(path[1]) = ToLowerChar(regex[2])
             /\ RegexMatchesAt(SubSeq(regex, 3, Len(regex)), Tail(path))
    ELSE /\ path # <<>>
         /\ ToLowerChar(path[1]) = ToLowerChar(regex[1])
         /\ RegexMatchesAt(Tail(regex), Tail(path))

\* regex.test(normalizedPath): the expression is not anchored.
RegexTest(regex, path) ==
    \E i \in 1..(Len(path) + 1) : RegexMatchesAt(regex, SubSeq(path, i, Len(path)))

\* pattern.substring(3, pattern.length - 3)
FolderPathOf(pattern) == Substring(pattern, 3, Len(pattern) - 3)

\* The body of the loop over the configured patterns.
PatternExcludes(pattern, normalizedPath) ==
    IF StartsWith(pattern, <<"*", "*", "/">>) /\ EndsWith(pattern, <<"/", "*", "*">>)
    THEN /\ FolderPathOf(pattern) # <<>>
         /\ Includes(normalizedPath, <<"/">> \o FolderPathOf(pattern) \o <<"/">>)
    ELSE RegexTest(GlobToRegex(pattern), normalizedPath)

isFileExcluded(list, filePath) ==
    \/ BuiltInExcluded(NormalizeSlashes(filePath))
    \/ \E i \in DOMAIN list : PatternExcludes(list[i], NormalizeSlashes(filePath))

\* The workspace roots, the folders selected and the files looked up.
proj == <<"/", "p", "r", "o", "j">>

proj2 == <<"/", "p", "r", "o", "j", "2">>

WorkspaceFolders == {<<>>, <<proj>>, <<proj, proj2>>}

SelectedFolders ==
    {proj, proj \o <<"/", "a", "p", "p">>, proj2 \o <<"/", "l", "i", "b">>, proj \o <<"/", "b", "u", "i", "l", "d">>}

LockFilePaths ==
    {proj \o <<"/", "c", "o", "m", "p", "o", "s", "e", "r", ".", "l", "o", "c", "k">>, proj \o <<"/", "p", "a", "c", "k", "a", "g", "e", "-", "l", "o", "c", "k", ".", "j", "s", "o", "n">>,
     <<"/", "m", "y", ".", "p", "r", "o", "j", "/", "y", "a", "r", "n", ".", "l", "o", "c", "k">>}

ManifestPaths ==
    {proj \o <<"/", "p", "a", "c", "k", "a", "g", "e", ".", "j", "s", "o", "n">>, proj \o <<"/", "a", "p", "p", "/", "p", "a", "c", "k", "a", "g", "e", ".", "j", "s", "o", "n">>,
     proj2 \o <<"/", "l", "i", "b", "/", "c", "o", "m", "p", "o", "s", "e", "r", ".", "j", "s", "o", "n">>, proj \o <<"/", "b", "u", "i", "l", "d", "/", "p", "u", "b", "s", "p", "e", "c", ".", "y", "a", "m", "l">>}

FilePaths == LockFilePaths \cup ManifestPaths

\* The exclusions the user may pick for removal.
Removable ==
    {<<"*", "*", "/", "b", "u", "i", "l", "d", "/", "*", "*">>, <<"*", "*", "/", "a", "p", "p", "/", "*", "*">>, <<"*", "*", "/", "*", ".", "l", "o", "c", "k">>,
     <<"*", "*", "/", "n", "o", "d", "e", "_", "m", "o", "d", "u", "l", "e", "s", "/", "*", "*">>}

InitialExclusions ==
    {<<>>, <<<<"*", "*", "/", "n", "o", "d", "e", "_", "m", "o", "d", "u", "l", "e", "s", "/", "*", "*">>, oldVendorExclusion, <<"*", "*", "/", "b", "u", "i", "l", "d", "/", "*", "*">>>>,
     <<oldVendorExclusion, oldVendorExclusion>>}

\* The patterns typed into the input box of excludeCustomPattern.
CustomPatterns == {<<"*", "*", "/", "a", "p", "p", "/", "*", "*">>, <<"*", "*", "/", "*", ".", "l", "o", "c", "k">>, <<"*", ".", "t", "m", "p">>}

InitExclude ==
    /\ NoClassification
    /\ NoManifest
    /\ NoScanning
    /\ NoTasks
    /\ excludeFolders \in InitialExclusions
    /\ command = NoCommand

ensureDefaultExclusions ==
    /\ command.step < MaxCommands
    /\ excludeFolders' = ReplaceOldVendor(PushMissing(excludeFolders, requiredExclusions))
    /\ command' = [name |-> "ensureDefaultExclusions", step |-> command.step + 1,
                   folder |-> <<>>, workspace |-> <<>>, pattern |-> <<>>,
                   before |-> excludeFolders, removed |-> command.removed]
    /\ UNCHANGED <<classifyVars, manifestVars, opened, call, scanVars, taskVars>>

\* The pattern the user removed last, forgotten once the user adds it again.
StillRemoved(removed, added) == IF added = removed THEN <<>> ELSE removed

excludeFolder(folder, workspaceFolders) ==
    /\ command.step < MaxCommands
    /\ excludeFolders' =
           IF ListIncludes(excludeFolders, GlobPatternOf(folder, workspaceFolders))
           THEN excludeFolders
           ELSE Append(excludeFolders, GlobPatternOf(folder, workspaceFolders))
    /\ command' = [name |-> "excludeFolder", step |-> command.step + 1,
                   folder |-> folder, workspace |-> workspaceFolders,
                   pattern |-> GlobPatternOf(folder, workspaceFolders),
                   before |-> excludeFolders,
                   removed |-> StillRemoved(command.removed,
                                            GlobPatternOf(folder, workspaceFolders))]
    /\ UNCHANGED <<classifyVars, manifestVars, opened, call, scanVars, taskVars>>

\* The input box validates that the pattern is not blank; a dismissed box
\* changes nothing.
excludeCustomPattern(pattern) ==
    /\ command.step < MaxCommands
    /\ excludeFolders' = IF ListIncludes(excludeFolders, pattern) THEN excludeFolders
                         ELSE Append(excludeFolders, pattern)
    /\ command' = [name |-> "excludeCustomPattern", step |-> command.step + 1,
                   folder |-> <<>>, workspace |-> <<>>, pattern |-> pattern,
                   before |-> excludeFolders,
                   removed |-> StillRemoved(command.removed, pattern)]
    /\ UNCHANGED <<classifyVars, manifestVars, opened, call, scanVars, taskVars>>

\* selectedFolder is <<>> for "Keep all exclusions" and for a dismissed pick.
manageExclusions(selectedFolder) ==
    /\ command.step < MaxCommands
    /\ excludeFolders # <<>>
    /\ selectedFolder = <<>> \/ ListIncludes(excludeFolders, selectedFolder)
    /\ excludeFolders' = IF selectedFolder = <<>> THEN excludeFolders
                         ELSE RemoveExclusion(excludeFolders, selectedFolder)
    /\ command' = [name |-> "manageExclusions", step |-> command.step + 1,
                   folder |-> <<>>, workspace |-> <<>>, pattern |-> selectedFolder,
                   before |-> excludeFolders,
                   removed |-> IF selectedFolder = <<>> THEN command.removed
                               ELSE selectedFolder]
    /\ UNCHANGED <<classifyVars, manifestVars, opened, call, scanVars, taskVars>>

NextExclude ==
    \/ ensureDefaultExclusions
    \/ \E folder \in SelectedFolders, workspaceFolders \in WorkspaceFolders :
           excludeFolder(folder, workspaceFolders)
    \/ \E pattern \in CustomPatterns : excludeCustomPattern(pattern)
    \/ \E selectedFolder \in Removable \cup {<<>>} : manageExclusions(selectedFolder)

SpecExclude == InitExclude /\ [][NextExclude]_vars

(***************************************************************************)
(* Two updatePackage commands on the same package.json.  A call gives up   *)
(* control at each await: while the document is opened and while the edit  *)
(* is applied.  What lies between two awaits is one step.                  *)
(***************************************************************************)
\* An updatePackage call on an npm dependency, before it has started.
Invocation(label, latest) ==
    [label |-> label, latestVersion |-> latest, pc |-> "idle", read |-> <<>>,
     edit |-> <<>>, success |-> FALSE]

\* The specifiers the two packages have in the file.
ConcurrentSpecifiers == {LibSpecifier, v100, <<">", "=">> \o v100}

InitConcurrent ==
    /\ NoClassification
    /\ NoScanning
    /\ NoExclusion
    /\ composerJson = <<>> /\ pubspecYaml = <<>> /\ requirementsTxt = <<>>
    /\ opened = <<>>
    /\ call = NoCall
    /\ batch = NoBatch
    /\ packageJson \in {PackageJsonOf(with, sp) :
                            with \in (SUBSET Range(NpmSections)) \ {{}},
                            sp \in ConcurrentSpecifiers}
    /\ invocations \in {<<Invocation(pkg, v1), Invocation(lib, v2)>> :
                            v1 \in NewVersions, v2 \in NewVersions}

\* The command handler up to `await vscode.workspace.openTextDocument`.
updatePackageJsonDependency(i) ==
    /\ invocations[i].pc = "idle"
    /\ invocations' = [invocations EXCEPT ![i].pc = "opening"]
    /\ UNCHANGED <<classifyVars, manifestVars, opened, call, scanVars, exclusionVars, batch>>

\* From the text of the document to the call of applyEdit: the text is
\* parsed, the entries of the package rewritten, and an edit built that
\* replaces the whole document by the rewritten object.
rewriteDocument(i) ==
    /\ invocations[i].pc = "opening"
    /\ invocations' =
           IF JsonUpdated(packageJson, NpmSections, invocations[i].label)
           THEN [invocations EXCEPT
                    ![i].pc = "applying",
                    ![i].read = packageJson,
                    ![i].edit = UpdateJsonSections(packageJson, NpmSections,
                                                   invocations[i].label,
                                                   invocations[i].latestVersion)]
           ELSE [invocations EXCEPT ![i].pc = "done", ![i].read = packageJson]
    /\ opened' = packageJson
    /\ UNCHANGED <<classifyVars, manifestVars, call, scanVars, exclusionVars, batch>>

\* vscode.workspace.applyEdit resolves.  An edit built from the text the
\* document still has is applied.  One built from a text that another edit
\* has replaced since is, according to the editor, either applied all the
\* same or refused.
applyEdit(i, applied) ==
    /\ invocations[i].pc = "applying"
    /\ applied \/ packageJson # invocations[i].read
    /\ packageJson' = IF applied THEN invocations[i].edit ELSE packageJson
    /\ invocations' = [invocations EXCEPT ![i].pc = "done", ![i].success = applied]
    /\ UNCHANGED <<classifyVars, composerJson, pubspecYaml, requirementsTxt, opened,
                   call, scanVars, exclusionVars, batch>>

NextConcurrent ==
    \E i \in {1, 2} :
        \/ updatePackageJsonDependency(i)
        \/ rewriteDocument(i)
        \/ \E applied \in BOOLEAN : applyEdit(i, applied)

SpecConcurrent == InitConcurrent /\ [][NextConcurrent]_vars

(***************************************************************************)
(* The loop of updateAllPackages over the outdated dependencies.  The      *)
(* dependencies are taken by their index in the list, from 0; calls and    *)
(* completed record which updatePackage calls were made and how many have  *)
(* returned.                                                               *)
(***************************************************************************)
Batch(length) ==
    [running |-> TRUE, length |-> length, i |-> 0, pc |-> "iteration",
     cancelled |-> FALSE, observedAt |-> -1, successCount |-> 0, failCount |-> 0,
     calls |-> <<>>, completed |-> 0]

InitBatch ==
    /\ NoClassification
    /\ NoManifest
    /\ NoScanning
    /\ NoExclusion
    /\ invocations = <<>>
    /\ batch \in {Batch(length) : length \in 1..MaxDependencies}

\* A slip: only the successful updates counted.
CountSuccessOnly(b, success) ==
    IF success THEN [b EXCEPT !.successCount = @ + 1] ELSE b

\* if (success) successCount++; else failCount++;
CountResult(b, success) ==
    IF success THEN [b EXCEPT !.successCount = @ + 1]
    ELSE [b EXCEPT !.failCount = @ + 1]

\* The user cancels the progress notification.
cancel ==
    /\ batch.pc # "finished"
    /\ ~batch.cancelled
    /\ batch' = [batch EXCEPT !.cancelled = TRUE]
    /\ UNCHANGED <<classifyVars, manifestVars, opened, call, scanVars, exclusionVars,
                   invocations>>

\* The head of one iteration, up to `await dependencyProvider.updatePackage`:
\* the loop condition, the test of the token, and the call.
iteration ==
    /\ batch.pc = "iteration"
    /\ batch' = IF batch.i >= batch.length THEN [batch EXCEPT !.pc = "finished"]
                ELSE IF batch.cancelled
                    THEN [batch EXCEPT !.pc = "finished",
                                       !.observedAt = Len(batch.calls)]
                ELSE [batch EXCEPT !.pc = "updating", !.calls = Append(@, batch.i)]
    /\ UNCHANGED <<classifyVars, manifestVars, opened, call, scanVars, exclusionVars,
                   invocations>>

\* updatePackage returns: the result is counted and i++ leads to the next
\* iteration.
updatePackageReturns(success) ==
    /\ batch.pc = "updating"
    /\ batch' = [CountResult(batch, success) EXCEPT
                    !.completed = @ + 1, !.i = @ + 1, !.pc = "iteration"]
    /\ UNCHANGED <<classifyVars, manifestVars, opened, call, scanVars, exclusionVars,
                   invocations>>

NextBatch ==
    \/ cancel
    \/ iteration
    \/ \E success \in BOOLEAN : updatePackageReturns(success)

SpecBatch == InitBatch /\ [][NextBatch]_vars

(***************************************************************************)
(* Properties of the updaters.                                             *)
(***************************************************************************)
\* The sections in which the last call rewrote the entry of its package.
RewrittenSections ==
    IF ~call.returned THEN {}
    ELSE IF call.packageManager = "npm"
        THEN {sec \in Range(NpmSections) : HasEntry(opened, sec, call.label)}
    ELSE IF call.packageManager = "composer"
        THEN {sec \in Range(ComposerSections) : HasEntry(opened, sec, call.label)}
    ELSE IF call.packageManager = "dart"
        THEN {sec \in Range(PubspecSections) :
                 /\ HasPubspecEntry(opened, sec, call.label)
                 /\ PubspecRewritable(opened[sec][call.label])}
    ELSE {}

\* The manifest the last call wrote.
Written ==
    IF call.packageManager = "npm" THEN packageJson
    ELSE IF call.packageManager = "composer" THEN composerJson
    ELSE pubspecYaml

\* The flat string specifiers the last call rewrote: what the manifest held
\* and what it holds now.
FlatRewrites ==
    IF call.packageManager \in {"npm", "composer"}
    THEN {<<opened[sec][call.label], Written[sec][call.label]>> :
             sec \in RewrittenSections}
    ELSE {<<opened[sec][call.label].text, Written[sec][call.label].text>> :
             sec \in {r \in RewrittenSections : opened[r][call.label].type = "string"}}

\* The version fields of pubspec maps the last call rewrote.
VersionFieldRewrites ==
    IF call.packageManager = "dart"
    THEN {<<opened[sec][call.label].fields["version"],
            Written[sec][call.label].fields["version"]>> :
             sec \in {r \in RewrittenSections : opened[r][call.label].type = "object"}}
    ELSE {}

\* The operator a specifier starts with: the longest of the set
\* {^, ~, >=, >, <=, <, ==, ~=}, or none.
OperatorOf(specifier) ==
    IF Len(specifier) >= 2 /\ SubSeq(specifier, 1, 2) \in Operators
    THEN SubSeq(specifier, 1, 2)
    ELSE IF Len(specifier) >= 1 /\ SubSeq(specifier, 1, 1) \in Operators
    THEN SubSeq(specifier, 1, 1)
    ELSE <<>>

\* C1 as claimed: a flat string specifier that starts with an operator is
\* rewritten to that whole operator followed by the latest version.
C1_OperatorPreserved ==
    \A rw \in FlatRewrites :
        OperatorOf(rw[1]) # <<>> => rw[2] = OperatorOf(rw[1]) \o call.latestVersion

\* The requirements.txt line the last call rewrote, 0 when it rewrote none.
RewrittenLine ==
    IF call.returned /\ call.packageManager = "pypi"
    THEN FirstMatchingLine(opened, call.label)
    ELSE 0

\* The line names the package and nothing else: no version specifier.
BareRequirement(line, label) ==
    LET body == DropLeading(line, {" "})
    IN  DropLeading(SubSeq(body, Len(label) + 1, Len(body)), {" "}) = <<>>

\* The specifier starts with none of the characters ~ ^ > = <.
NoLeadingOperator(specifier) ==
    Len(specifier) = 0 \/ specifier[1] \notin {"~", "^", ">", "=", "<"}

\* C5 as claimed: a specifier without leading operator is rewritten to
\* exactly the new version, and so is the (empty) specifier of a
\* requirements.txt line that names the package only.
C5_NoOperatorInserted ==
    /\ \A rw \in FlatRewrites \cup VersionFieldRewrites :
           NoLeadingOperator(rw[1]) => rw[2] = call.latestVersion
    /\ (RewrittenLine # 0 /\ BareRequirement(opened[RewrittenLine], call.label))
           => requirementsTxt[RewrittenLine] = call.label \o call.latestVersion

\* C5 as amended: the npm, Composer and Dart updaters rewrite a specifier
\* without leading operator to exactly the new version; the Python updater
\* rewrites a line that names the package only to name == new version.
C5_NoOperatorInsertedButPypi ==
    /\ \A rw \in FlatRewrites \cup VersionFieldRewrites :
           NoLeadingOperator(rw[1]) => rw[2] = call.latestVersion
    /\ (RewrittenLine # 0 /\ BareRequirement(opened[RewrittenLine], call.label))
           => requirementsTxt[RewrittenLine] =
                  call.label \o <<"=", "=">> \o call.latestVersion

C5_Witness ==
    /\ call.returned
    /\ call.packageManager = "dart"
    /\ \E rw \in FlatRewrites : rw[1] = v100 /\ rw[2] = call.latestVersion

(***************************************************************************)
(* Properties of getUpdateType.                                            *)
(***************************************************************************)
Classified == updateType # "pending"

\* The two inputs as versions, where they are valid semantic versions.
current == SemverParse(currentVersion)

latest == SemverParse(latestVersion)

\* The two inputs as coerced.
coercedCurrent == SemverCoerce(currentVersion)

coercedLatest == SemverCoerce(latestVersion)

\* The name of the first main component in which two versions differ.
FirstDifference(v, w) ==
    IF v.major # w.major THEN "major"
    ELSE IF v.minor # w.minor THEN "minor"
    ELSE "patch"

\* C2 as claimed: when current and latest are valid versions with equal
\* major, minor and patch and latest is greater by pre-release ordering only,
\* the result is 'prerelease'.
C2_PrereleaseReported ==
    (/\ Classified
     /\ current # NoVersion
     /\ latest # NoVersion
     /\ compareMain(current, latest) = 0
     /\ SemverCompare(latest, current) > 0)
        => updateType = "prerelease"

\* C3: for valid versions a < b without pre-release tags the result names
\* the first differing component: major, else minor, else patch.
C3_ReleaseClassification ==
    (/\ Classified
     /\ current # NoVersion
     /\ latest # NoVersion
     /\ current.prerelease = <<>>
     /\ latest.prerelease = <<>>
     /\ SemverCompare(current, latest) < 0)
        => updateType = FirstDifference(current, latest)

C3_Witness ==
    /\ Classified
    /\ current # NoVersion
    /\ latest # NoVersion
    /\ current.prerelease = <<>>
    /\ latest.prerelease = <<>>
    /\ current.major = latest.major
    /\ current.minor < latest.minor
    /\ current.patch > latest.patch
    /\ updateType = "minor"

\* The specifier is neither a valid plain version nor a valid range.
InvalidSpecifier ==
    current = NoVersion /\ ~SemverValidRange(currentVersion)

\* C4 as claimed: a specifier that is neither a valid version nor a valid
\* range is classified 'none' for every latest version.
C4_InvalidSpecifierIsNone ==
    (Classified /\ InvalidSpecifier) => updateType = "none"

\* C4 as amended: a specifier that is neither a valid version nor a valid
\* range is classified 'none' when no version can be coerced out of one of
\* the two strings or the coerced latest is not greater than the coerced
\* current, and by the first differing component of the coerced versions
\* otherwise.
C4_InvalidSpecifierIsCoerced ==
    (Classified /\ InvalidSpecifier) =>
        updateType =
            IF \/ coercedCurrent = NoVersion
               \/ coercedLatest = NoVersion
               \/ SemverCompare(coercedLatest, coercedCurrent) <= 0
            THEN "none"
            ELSE FirstDifference(coercedCurrent, coercedLatest)

C4_Witness ==
    /\ Classified
    /\ InvalidSpecifier
    /\ coercedCurrent # NoVersion
    /\ coercedLatest # NoVersion
    /\ SemverCompare(coercedLatest, coercedCurrent) > 0
    /\ updateType = "major"

\* C6: when the coerced latest is not greater than the coerced current, the
\* result is 'none'.
C6_NoDowngrade ==
    (/\ Classified
     /\ coercedCurrent # NoVersion
     /\ coercedLatest # NoVersion
     /\ SemverCompare(coercedLatest, coercedCurrent) <= 0)
        => updateType = "none"

C6_Witness ==
    /\ Classified
    /\ coercedCurrent # NoVersion
    /\ coercedLatest # NoVersion
    /\ SemverCompare(coercedLatest, coercedCurrent) < 0
    /\ updateType = "none"

\* C7: a valid version classified against itself gives 'none'.
C7_SelfIsNone ==
    (Classified /\ current # NoVersion /\ currentVersion = latestVersion)
        => updateType = "none"

C7_Witness ==
    /\ Classified
    /\ current # NoVersion
    /\ current.prerelease # <<>>
    /\ currentVersion = latestVersion
    /\ updateType = "none"

\* C8: the specifier '*', and 'any' in any letter case, give 'none' for
\* every latest version.
C8_AnyIsNone ==
    (Classified /\ (currentVersion = star \/ toLowerCase(currentVersion) = any))
        => updateType = "none"

C8_Witness ==
    /\ Classified
    /\ currentVersion = <<"A", "n", "y">>
    /\ latest # NoVersion
    /\ updateType = "none"

\* C9: every call returns one of the five update types; no exception leaves
\* the function.
C9_Total == Classified => updateType \in UpdateTypes

C9_Witness ==
    /\ Classified
    /\ coercedCurrent = NoVersion
    /\ coercedLatest = NoVersion
    /\ currentVersion # <<>>
    /\ updateType = "none"

\* C10: the specifier with its leading operator is classified as the payload
\* without it.
C10_OperatorIgnored ==
    Classified => updateType = getUpdateType(payload, latestVersion)

C10_Witness ==
    /\ Classified
    /\ operator = <<">", "=">>
    /\ SemverParse(payload) # NoVersion
    /\ updateType = "minor"

\* C11: when the specifier is a range from which a version can be coerced
\* and latest satisfies the range, the result is the classification of the
\* coerced latest against the coerced current: the first differing
\* component when latest is greater, 'none' otherwise.
C11_SatisfiedRangeClassified ==
    (/\ Classified
     /\ SemverValidRange(currentVersion)
     /\ SemverSatisfies(latestVersion, currentVersion)
     /\ coercedCurrent # NoVersion)
        => updateType =
               IF SemverCompare(coercedLatest, coercedCurrent) > 0
               THEN FirstDifference(coercedCurrent, coercedLatest)
               ELSE "none"

C11_Witness ==
    /\ Classified
    /\ operator = <<"^">>
    /\ SemverValidRange(currentVersion)
    /\ SemverSatisfies(latestVersion, currentVersion)
    /\ updateType = "minor"

\* C12: rewriting what an updater wrote gives what rewriting the original
\* gives, for every new version: for the string specifiers and the version
\* fields the npm, Composer and Dart updaters rewrote, and for the
\* requirements.txt line the Python updater rewrote.
C12_RewriteIsReplacement ==
    \A v2 \in NewVersions :
        /\ \A rw \in FlatRewrites \cup VersionFieldRewrites :
               RewriteSpecifier(rw[2], v2) = RewriteSpecifier(rw[1], v2)
        /\ RewrittenLine # 0 =>
               /\ MatchesPackage(requirementsTxt[RewrittenLine], call.label)
               /\ RewriteLine(requirementsTxt[RewrittenLine], call.label, v2)
                      = RewriteLine(opened[RewrittenLine], call.label, v2)

\* A specifier without operator and a line with the operator ~= rewritten.
C12_Witness ==
    \/ /\ call.packageManager = "composer"
       /\ \E rw \in FlatRewrites : rw[1] = v100 /\ rw[2] # rw[1]
    \/ /\ RewrittenLine # 0
       /\ PypiOperator(opened[RewrittenLine]) = <<"~", "=">>
       /\ requirementsTxt[RewrittenLine] # opened[RewrittenLine]

\* The zero-padded form of a truncated version N or N.M, the text itself
\* otherwise.
ZeroPadded(text) ==
    IF IsNumericIdentifier(text) THEN text \o <<".", "0", ".", "0">>
    ELSE IF /\ Len(Split(text, ".")) = 2
            /\ \A i \in 1..2 : IsNumericIdentifier(Split(text, ".")[i])
        THEN text \o <<".", "0">>
    ELSE text

\* C13 as claimed: a truncated current version N or N.M is classified as
\* its zero-padded form N.0.0 or N.M.0, for every latest version.
C13_TruncatedAsPadded ==
    (Classified /\ operator = <<>> /\ ZeroPadded(payload) # payload)
        => updateType = getUpdateType(ZeroPadded(payload), latestVersion)

\* The sections in which the last call rewrote a pubspec map.
RewrittenMaps ==
    IF call.packageManager = "dart"
    THEN {sec \in RewrittenSections : opened[sec][call.label].type = "object"}
    ELSE {}

\* The keys of the rewritten maps other than version are as they were.
OtherKeysUnchanged ==
    \A sec \in RewrittenMaps :
        /\ pubspecYaml[sec][call.label].type = "object"
        /\ DOMAIN pubspecYaml[sec][call.label].fields = DOMAIN opened[sec][call.label].fields
        /\ \A k \in DOMAIN opened[sec][call.label].fields \ {"version"} :
               pubspecYaml[sec][call.label].fields[k] = opened[sec][call.label].fields[k]

\* C14 as claimed: in a pubspec map with a version, the version becomes the
\* operator it started with followed by the latest version, and every other
\* key of the map is unchanged.
C14_VersionFieldOnly ==
    /\ OtherKeysUnchanged
    /\ \A rw \in VersionFieldRewrites :
           rw[2] = OperatorOf(rw[1]) \o call.latestVersion

\* The entries of the package that the last Dart call found in the
\* document it read.
PubspecEntries ==
    IF call.packageManager = "dart" /\ opened # <<>>
    THEN {opened[sec][call.label] :
             sec \in {r \in Range(PubspecSections) \cap DOMAIN opened :
                          call.label \in DOMAIN opened[r]}}
    ELSE {}

\* A map without version field, or a value that is neither string nor map.
NoVersionShape(value) ==
    \/ value.type = "object" /\ "version" \notin DOMAIN value.fields
    \/ value.type \notin {"string", "object"}

\* C15: when every entry of the package is a map without version or a value
\* of another unrecognized shape, the Dart updater returns false and the
\* manifest is as it was read.
C15_NoVersionNoEdit ==
    (PubspecEntries # {} /\ \A value \in PubspecEntries : NoVersionShape(value))
        => (~call.returned /\ pubspecYaml = opened)

C15_Witness ==
    /\ MapValue([k \in {"git"} |-> url]) \in PubspecEntries
    /\ \A value \in PubspecEntries : NoVersionShape(value)
    /\ call.latestVersion # <<>>
    /\ ~call.returned
    /\ pubspecYaml = opened

(***************************************************************************)
(* Properties of the parsers.                                              *)
(***************************************************************************)
\* C16: when the registry fetch made for an entry yields no version, the
\* parser does not classify: the Dependency has update type 'none' and no
\* latest version, and getAllOutdatedDependencies does not return it.
C16_NoVersionNoUpdate ==
    (scanned.fetched /\ response = <<>>)
        => /\ scanned.listed
           /\ ~scanned.classified
           /\ scanned.dependency.updateType = "none"
           /\ scanned.dependency.latestVersion = <<>>
           /\ ~scanned.outdated

C16_Witness ==
    /\ scanned.fetched
    /\ response = <<>>
    /\ entry.packageManager = "pypi"
    /\ scanned.dependency.version = <<">", "=">> \o v100
    /\ ~scanned.outdated

\* A pubspec map with sdk, path, git or hosted.
PseudoVersion(value) ==
    value.type = "object" /\ DOMAIN value.fields \cap {"sdk", "path", "git", "hosted"} # {}

\* C17: for a pubspec map with sdk, path, git or hosted the Dart parser
\* neither fetches nor classifies; an sdk entry is omitted and the others
\* are listed with update type 'none' and no latest version.
C17_PseudoVersionsUnchecked ==
    (scanned.done /\ entry.packageManager = "dart" /\ PseudoVersion(entry.value))
        => /\ ~scanned.fetched
           /\ ~scanned.classified
           /\ IF "sdk" \in DOMAIN entry.value.fields
              THEN ~scanned.listed
              ELSE /\ scanned.listed
                   /\ scanned.dependency.updateType = "none"
                   /\ scanned.dependency.latestVersion = <<>>

C17_Witness ==
    /\ scanned.done
    /\ entry.packageManager = "dart"
    /\ "hosted" \in DOMAIN entry.value.fields
    /\ response # <<>>
    /\ scanned.listed
    /\ scanned.dependency.updateType = "none"

\* C25: getDepsInPubspecYaml returns a Dependency for every entry that is
\* not an sdk map, whatever the shape of its value, and the shape of one
\* entry never makes the other entries drop out of the result.
C25_EveryEntryListed ==
    (scanned.done /\ entry.packageManager = "dart")
        => /\ \E i \in DOMAIN scanned.returned : scanned.returned[i] = SiblingDependency
           /\ ~(entry.value.type = "object" /\ "sdk" \in DOMAIN entry.value.fields)
                  => \E i \in DOMAIN scanned.returned :
                         scanned.returned[i].label = entry.label

\* C26: every Dependency getAllOutdatedDependencies returns has an update
\* type among major, minor, patch and prerelease, a latest version and a
\* package manager updatePackage dispatches on, so updatePackage does not
\* reject it for missing or unsupported information.
C26_OutdatedIsUpdatable ==
    scanned.outdated
        => /\ scanned.dependency.updateType \in {"major", "minor", "patch", "prerelease"}
           /\ scanned.dependency.latestVersion # <<>>
           /\ scanned.dependency.packageManager \in {"npm", "composer", "pypi", "dart"}
           /\ UpdatePackageDispatch(scanned.dependency) = entry.packageManager

C26_Witness ==
    /\ scanned.outdated
    /\ entry.packageManager = "dart"
    /\ scanned.dependency.updateType = "major"
    /\ UpdatePackageDispatch(scanned.dependency) = "dart"

(***************************************************************************)
(* Properties of the exclusions.                                           *)
(***************************************************************************)
\* C18: once ensureDefaultExclusions has applied the default exclusions,
\* isFileExcluded is true for every lock file the default patterns
\* '**/*.lock', '**/package-lock.json' and '**/composer.lock' cover.
C18_LockFilesExcluded ==
    (command.name = "ensureDefaultExclusions")
        => \A filePath \in LockFilePaths : isFileExcluded(excludeFolders, filePath)

\* A file located under a folder.
Under(filePath, folder) == StartsWith(filePath, folder \o <<"/">>)

\* C19: after excludeFolder has been run on a folder, isFileExcluded is true
\* for every manifest file located under that folder, for any selected
\* folder and any workspace roots.
C19_FolderExcluded ==
    (command.name = "excludeFolder")
        => \A filePath \in ManifestPaths :
               Under(filePath, command.folder) => isFileExcluded(excludeFolders, filePath)

\* The exclusions left when the selected one is taken out of the list the
\* command started from.
Remaining == SelectSeq(command.before, LAMBDA f : f # command.pattern)

NoRemainingMatch(filePath) ==
    \A i \in DOMAIN Remaining :
        ~PatternExcludes(Remaining[i], NormalizeSlashes(filePath))

Removed == command.name = "manageExclusions" /\ command.pattern # <<>>

C28_DefaultsEnsured ==
    (command.name = "ensureDefaultExclusions")
        => /\ \A k \in DOMAIN requiredExclusions :
                  ListIncludes(excludeFolders, requiredExclusions[k])
           /\ \A k \in DOMAIN command.before :
                  command.before[k] # oldVendorExclusion
                      => ListIncludes(excludeFolders, command.before[k])
           /\ ~ListIncludes(excludeFolders, oldVendorExclusion)

\* No pattern occurs twice in the list.
DuplicateFree(list) ==
    \A i \in DOMAIN list : \A j \in DOMAIN list : list[i] = list[j] => i = j

\* C29: each of ensureDefaultExclusions, excludeFolder, excludeCustomPattern
\* and manageExclusions leaves a duplicate-free list duplicate-free, and
\* adding a pattern the list holds leaves the list as it is.
C29_NoDuplicates ==
    (command.name # "" /\ DuplicateFree(command.before))
        => /\ DuplicateFree(excludeFolders)
           /\ (/\ command.name \in {"excludeFolder", "excludeCustomPattern"}
               /\ ListIncludes(command.before, command.pattern))
                  => excludeFolders = command.before

\* C30 as stated: a pattern removed through manageExclusions is absent from
\* the list after every later activation.
C30_RemovedStaysAbsent ==
    command.removed # <<>> => ~ListIncludes(excludeFolders, command.removed)

\* The exclusions ensureDefaultExclusions is written to keep present.
IsRequired(pattern) ==
    \E k \in DOMAIN requiredExclusions : requiredExclusions[k] = pattern

\* C30 amended: a pattern removed through manageExclusions that is not one
\* of the required default exclusions is absent from the list after every
\* later activation; ensureDefaultExclusions adds a removed required
\* exclusion again.
C30_RemovedStaysAbsentUnlessRequired ==
    (command.removed # <<>> /\ ~IsRequired(command.removed))
        => ~ListIncludes(excludeFolders, command.removed)

C30_Witness ==
    /\ command.name = "ensureDefaultExclusions"
    /\ command.removed = <<"*", "*", "/", "b", "u", "i", "l", "d", "/", "*", "*">>
    /\ ~ListIncludes(excludeFolders, command.removed)
    /\ ListIncludes(excludeFolders, <<"*", "*", "/", "*", ".", "l", "o", "c", "k">>)

(***************************************************************************)
(* The classification against its reference.                               *)
(***************************************************************************)
\* v is strictly greater than w, component by component.
MainGreater(v, w) ==
    \/ v.major > w.major
    \/ v.major = w.major /\ v.minor > w.minor
    \/ v.major = w.major /\ v.minor = w.minor /\ v.patch > w.patch

\* The reference: 'none' when a coercion yields no version or the coerced
\* latest is not strictly greater, else the first differing component.
Reference(c, l) ==
    IF c = NoVersion \/ l = NoVersion THEN "none"
    ELSE IF ~MainGreater(l, c) THEN "none"
    ELSE IF l.major # c.major THEN "major"
    ELSE IF l.minor # c.minor THEN "minor"
    ELSE "patch"

\* C21: for every specifier and latest version, getUpdateType gives what
\* the reference gives on the two coerced versions; the 'any'/'*' test and
\* the range-validation branch never change the result.
C21_EqualsReference ==
    Classified
        => updateType = Reference(SemverCoerce(currentVersion),
                                  SemverCoerce(latestVersion))

C21_Witness ==
    /\ Classified
    /\ operator = <<"<", "=">>
    /\ SemverValidRange(currentVersion)
    /\ SemverSatisfies(latestVersion, currentVersion)
    /\ MainGreater(SemverCoerce(currentVersion), SemverCoerce(latestVersion))
    /\ updateType = "none"

(***************************************************************************)
(* The frame of an update.                                                 *)
(***************************************************************************)
\* The sections of an object and the keys in them are those of another.
SameKeys(after, before) ==
    /\ DOMAIN after = DOMAIN before
    /\ \A sec \in DOMAIN before : DOMAIN after[sec] = DOMAIN before[sec]

\* Only the entries of the package in the given sections differ.
OnlyEntriesOf(after, before, sections, label) ==
    /\ SameKeys(after, before)
    /\ \A sec \in DOMAIN before : \A key \in DOMAIN before[sec] :
           after[sec][key] # before[sec][key]
               => key = label /\ sec \in Range(sections)

\* The entries of the package in package.json that hold a specifier are
\* the rewritten ones.
EntriesRewritten(after, before, sections, label, newVersion) ==
    \A sec \in Range(sections) :
        HasEntry(before, sec, label)
            => after[sec][label] = RewriteSpecifier(before[sec][label], newVersion)

\* The requirement of a line is the package: the name the line starts with
\* is the name of the package, letter case apart.
NamesPackage(line, label) ==
    toLowerCase(PypiName(Trim(line))) = toLowerCase(label)

\* Only lines of the package differ.
OnlyLinesOf(after, before, label) ==
    /\ Len(after) = Len(before)
    /\ \A i \in 1..Len(before) :
           after[i] # before[i] => NamesPackage(before[i], label)

\* C23: after a successful update by any of the four updaters, every other
\* dependency entry and every other requirements.txt line is as before, and
\* in package.json exactly the entries of the package in dependencies,
\* devDependencies and optionalDependencies are changed.
C23_OnlyUpdatedPackageChanged ==
    call.returned
        => CASE call.packageManager = "npm" ->
                   /\ OnlyEntriesOf(packageJson, opened, NpmSections, call.label)
                   /\ EntriesRewritten(packageJson, opened, NpmSections, call.label,
                                       call.latestVersion)
             [] call.packageManager = "composer" ->
                   OnlyEntriesOf(composerJson, opened, ComposerSections, call.label)
             [] call.packageManager = "dart" ->
                   OnlyEntriesOf(pubspecYaml, opened, PubspecSections, call.label)
             [] OTHER ->
                   OnlyLinesOf(requirementsTxt, opened, call.label)

\* The comparison operator a requirement specifier starts with, <<>> when
\* it starts with none of ==, >=, >, <=, <, ~=.
SpecifierOperator(specifier) ==
    IF Len(specifier) >= 2
       /\ SubSeq(specifier, 1, 2) \in {<<"=", "=">>, <<">", "=">>, <<"<", "=">>, <<"~", "=">>}
    THEN SubSeq(specifier, 1, 2)
    ELSE IF Len(specifier) >= 1 /\ specifier[1] \in {">", "<"} THEN <<specifier[1]>>
    ELSE <<>>

\* The operator of a requirements.txt line: that of what follows the name.
LineOperator(line) ==
    SpecifierOperator(DropLeading(SubSeq(Trim(line), Len(PypiName(Trim(line))) + 1,
                                         Len(Trim(line))), {" "}))

PypiUpdated == call.returned /\ call.packageManager = "pypi"

\* C24: the line updatePypiPackage rewrites becomes name + op +
\* latestVersion, where op is the operator the specifier of the line starts
\* with, one of ==, >=, >, <=, <, ~=, also when the line holds several
\* comparator clauses.
C24_PypiOperatorKept ==
    (PypiUpdated /\ LineOperator(opened[RewrittenLine]) # <<>>)
        => requirementsTxt[RewrittenLine]
               = call.label \o LineOperator(opened[RewrittenLine]) \o call.latestVersion

(***************************************************************************)
(* Properties of interleaved updates.                                      *)
(***************************************************************************)
\* The file holds, for the package of a call, the specifier the call read
\* rewritten with the latest version the call was given.
HoldsUpdate(i) ==
    \A sec \in Range(NpmSections) :
        HasEntry(invocations[i].read, sec, invocations[i].label)
            => Get(packageJson[sec], invocations[i].label)
                   = RewriteSpecifier(invocations[i].read[sec][invocations[i].label],
                                      invocations[i].latestVersion)

BothDone == invocations # <<>> /\ \A i \in {1, 2} : invocations[i].pc = "done"

\* C22: when two updatePackage calls for two different packages of the same
\* package.json have run interleaved, the final file holds both updated
\* specifiers.
C22_NoLostUpdate == BothDone => HoldsUpdate(1) /\ HoldsUpdate(2)

(***************************************************************************)
(* Properties of the updateAllPackages loop.                               *)
(***************************************************************************)
\* The calls made are those of the first dependencies of the list, in list
\* order, once each.
InListOrder(calls) == \A k \in 1..Len(calls) : calls[k] = k - 1

\* C27: updatePackage calls are made one at a time, in list order, at most
\* once per outdated dependency; once the token has been seen cancelled at
\* the start of an iteration no further call is made; successCount +
\* failCount is the number of completed calls, which never exceeds the
\* number of outdated dependencies.
C27_LoopCounts ==
    batch.running
        => /\ InListOrder(batch.calls)
           /\ Len(batch.calls) <= batch.length
           /\ Len(batch.calls) - batch.completed \in {0, 1}
           /\ batch.observedAt # -1 => Len(batch.calls) = batch.observedAt
           /\ batch.successCount + batch.failCount = batch.completed
           /\ batch.completed <= batch.length

C27_Witness ==
    /\ batch.running
    /\ batch.observedAt = 2
    /\ batch.length = 3
    /\ batch.successCount = 1
    /\ batch.failCount = 1

====
